---------------------------- MODULE Spec2Model ----------------------------
(***************************************************************************)
(* A model of the Rapture screen-capture tool: the capture lists of the    *)
(* three page scripts (src/app.js, src/4blind/js/capture-manager.js,       *)
(* src/oldone/config.example.js), the screen-capture handlers, the AI      *)
(* analyzer with its fallback provider, the retry loop around it, the      *)
(* auto-capture timer and the Quick/Full sequences.                        *)
(*                                                                         *)
(* JavaScript runs handlers to completion on one event loop, so every      *)
(* action below is one handler or one promise continuation, taken whole.   *)
(***************************************************************************)
EXTENDS Integers, Sequences, FiniteSets, TLC

(***************************************************************************)
(* Bounds of the model (not program constants).                            *)
(***************************************************************************)
MaxSaves == 52

MaxWriteFailures == 2

MaxUserCalls == 1

MaxAnalyses == 3

MaxRetriesBound == 3

MaxInflight == 2

MaxAttempts == 4

MaxAutoCount == 3

MaxPendingRestarts == 2

MaxAnalyzeTimers == 1

MaxEmergencySaves == 1

\* the time, in ms, for which a waitForLivePreview call is followed
MaxWlClock == 11000
\* the length of the capture list, and the last time, in the storage specification
MaxStoreSaves == 3
\* the number of localStorage writes of the capture manager that throw
MaxStoreFailures == 1
\* the seconds a countdown started from outside performSequentialActions may last
MaxSeconds == 3
\* the number of startCountdown calls from outside performSequentialActions
MaxCdCalls == 2
\* how far below zero currentCountdown is followed
MaxBelowZero == 2
\* the number of performSequentialActions calls
MaxRuns == 2
\* the length of the list of actions of a performSequentialActions call
MaxActions == 3

\* the number of announce calls followed
MaxAnnouncements == 3

\* how far into a phrase a misheard character can be
MaxEditPos == 4

ApiKeyChoices == {{}, {"openai", "cohere"}}

(***************************************************************************)
(* Program constants.                                                      *)
(***************************************************************************)
AppMaxCaptures == 50

OldMaxCaptures == 20

maxCaptures == 50

HistoryMax == 50

DefaultMaxRetries == 3

BackoffUnit == 1000

DefaultAutoCount == 3

CountCeiling == 10
\* main.js line 517: the delay of the next poll of the preview
PollMs == 500
\* main.js line 524: the timeout of waitForLivePreview
PreviewTimeoutMs == 10000
\* auto-capture.js line 850: the countdown between two sequential actions
CountdownSeconds == 5

VARIABLES
    program,          \* which page script is loaded: "app", "accessible", "old"
    captures,         \* this.captures, newest first; an entry is the ordinal of its save
    currentCapture,   \* this.currentCapture / window.currentCapture: "null", "image", "video"
    stored,           \* the capture list persisted in localStorage
    writeFailures,    \* number of localStorage writes that threw so far
    saves,            \* number of saves so far (the source of the entries' ids)
    capPc,            \* position of the one captureScreen call in flight
    track,            \* the video track of that call: "none", "live", "stopped"
    frame,            \* how grabFrame of that call settled: "none", "ok", "rejected"
    recorder,         \* MediaRecorder: "inactive", "requesting", "recording", "stopping"
    uploadPending,    \* old page: a mock cloud upload is in flight
    alerted,          \* the last capture/recording handler ended in its catch block
    escaped           \* an exception left a handler uncaught

VARIABLES
    analyzerBuild,    \* which copy of the analyzer is loaded: "ai-analyzer.js", "part_004"
    mainAppProviders, \* window.raptureAccessible.aiProviders exists (part_006) or not (main.js)
    apiKeys,          \* AIAnalyzer.apiKeys: the provider keys an API key is stored for
    anCapture,        \* a capture is visible to the analyzer (this.currentCapture or captureManager's)
    isAnalyzing,      \* AIAnalyzer.isAnalyzing
    currentAnalysis,  \* AIAnalyzer.currentAnalysis: "" or the provider whose text it holds
    analysisHistory,  \* AIAnalyzer.analysisHistory: provider names, newest first
    anPc,             \* position of the analyzeWithAI call that passed the guards
    anCaller,         \* who made that call: "user", "retry"
    anProvider,       \* the provider of the primary attempt, "null" before it is known
    primaryFailure,   \* why the primary attempt failed, "none" if it did not
    fbProvider,       \* the fallback provider of this call, "null" if none
    fbRequest,        \* the fallback request: "none", "ok", "failed", "absent"
    fbAttempts,       \* performAnalysis calls made with the fallback provider in this call
    anResult,         \* how the call ended: "none", "value", "undefined", "throw"
    anText,           \* the provider whose text the call returned, "" if none
    anError,          \* the error the call rejected with: "none", "primary", "fallback"
    userCalls         \* analyzeWithAI calls made from the page's buttons

anVars == <<analyzerBuild, mainAppProviders, apiKeys, anCapture, isAnalyzing,
            currentAnalysis, analysisHistory, anPc, anCaller, anProvider,
            primaryFailure, fbProvider, fbRequest, fbAttempts, anResult, anText,
            anError, userCalls>>

VARIABLES
    hasAnalyzer,      \* window.aiAnalyzer is defined
    maxRetries,       \* the argument of performAnalysisWithRetry (3 by default)
    attempt,          \* the loop variable
    rPc,              \* "idle", "awaitAnalyze", "backoff", "returned", "thrown"
    calls,            \* number of analyzeWithAI() invocations made by the loop
    outcomes,         \* per attempt, in order: "ok" (did not throw) or "threw"
    rtImmediate,      \* the awaited call returned at one of analyzeWithAI's guards
    delay,            \* the delay of the pending backoff timer, in ms
    elapsed,          \* time since that timer was set, in ms
    waits             \* the time waited before each further attempt, in order

VARIABLES
    hasCaptureApi,           \* navigator.mediaDevices.getDisplayMedia exists
    isAutoCapturing,
    autoCaptureInterval,     \* the stored interval handle, 0 for null
    intervals,               \* the interval timers registered with the browser
    autoCaptureCount,
    currentAutoCaptureCount,
    slots,                   \* the number of captureScreen calls in flight, per caller
    restartPending,          \* pending 100 ms timers of setAutoCaptureDelay
    prefPending,             \* the 2 s timer of loadUserPreferences is pending
    firstLoadPending,        \* the 3 s timer of setupFirstLoadAutoCapture is pending
    analyzeTimers,           \* pending analysis timers set after a capture
    lastCall,                \* how the last settled captureScreen call ended
    strayFire                \* an interval fired while auto capture was stopped

VARIABLES
    seqKind,          \* "none", "quick", "full"
    seqIdx,           \* index in Steps(seqKind) of the awaited step, 0 if none
    seqStatus,        \* "none", "running", "completed", "failed"
    stepsRun,         \* the steps started by the current sequence, in order
    seqResolved       \* the number of its steps that resolved

VARIABLES
    previewVisible,   \* one of the three preview elements has display # 'none'
    wlPc,             \* the promise of waitForLivePreview: "idle" before the
                      \* call, then "pending", "resolved" or "rejected"
    wlClock,          \* ms since the call
    wlPollDue,        \* the time the pending checkPreview timer is due, -1 if none
    wlTimeoutDue,     \* the time the timeout timer is due, -1 if none
    wlSettles,        \* how many times the promise changed its state
    wlSettledAt,      \* the time of its last change, -1 if none
    wlFirstSeen       \* the time of the first check that found a preview, -1 if none

wlVars == <<previewVisible, wlPc, wlClock, wlPollDue, wlTimeoutDue, wlSettles,
            wlSettledAt, wlFirstSeen>>

VARIABLES
    stCaptures,       \* CaptureManager.captures of the accessible page, as records
    stStored,         \* localStorage['raptureAccessibleCaptures']: present or not, and its text
    stCurrent,        \* window.currentCapture: <<>> if unset, else <<the record>>
    stClock,          \* Date.now()
    stSynced,         \* the last saveCaptures succeeded
    stFailures,       \* how many saveCaptures failed so far
    stLastOp,         \* the last operation on the capture list
    stBeforeLoad      \* after a reload, the captures list before it; else <<>>

stVars == <<stCaptures, stStored, stCurrent, stClock, stSynced, stFailures,
            stLastOp, stBeforeLoad>>

VARIABLES
    cdLive,           \* the live countdown timers: [h |-> handle, cb |-> callback]
    countdownInterval,\* this.countdownInterval: a handle, 0 for null
    currentCountdown, \* this.currentCountdown
    isCountdownActive,\* this.isCountdownActive
    isPaused,         \* this.isPaused
    cdCalls,          \* startCountdown calls made from outside performSequentialActions
    cbInvoked,        \* the callbacks invoked so far
    cbRepeated,       \* the callbacks invoked more than once
    cdTicked,         \* the handles of the timers that fired in the present second
    cdDecs,           \* decrements of currentCountdown in the present second (2: two or more)
    cdEvent,          \* the last handler that ran
    runPc,            \* per performSequentialActions call: "idle", "action", "countdown", "done"
    runIdx,           \* the number of the action it started last
    runLen,           \* the length of its list of actions
    runLog            \* what it did so far, in order

VARIABLES
    aqCopy,           \* which AccessibilityManager class is loaded: 1 or 2
    hasSpeech,        \* window.speechSynthesis exists
    hasUserActivated, \* a click, keydown or touchstart was seen (first class)
    announcementQueue,\* this.announcementQueue: <<id, priority>> entries
    isAnnouncing,     \* this.isAnnouncing
    aqEngine,         \* the browser's utterance queue, the head being spoken
    aqEvents,         \* cancelled utterances whose end/error event is still to come
    aqTimers,         \* pending setTimeout(processAnnouncementQueue, 100)
    aqCalled,         \* ids in the order announce was called
    aqTaken,          \* ids in the order they were taken from the queue
    aqInProgress,     \* ids taken whose utterance neither ended nor errored
    aqDisplayed,      \* ids given to displayAnnouncement
    aqThrew           \* speechSynthesis.speak threw at least once

aqVars == <<aqCopy, hasSpeech, hasUserActivated, announcementQueue, isAnnouncing,
            aqEngine, aqEvents, aqTimers, aqCalled, aqTaken, aqInProgress,
            aqDisplayed, aqThrew>>

VARIABLES
    vcTranscript,     \* the transcript given to processCommand last
    vcAction,         \* the action it selected, "null" if none
    vcOutcome,        \* what executeCommand did with it
    vcAnnounced,      \* the announcements made by that call, in order
    vcSelected        \* per transcript, the action the loop of processCommand
                      \* ends with (computed once, <<>> where no voice command
                      \* is followed)

vcVars == <<vcTranscript, vcAction, vcOutcome, vcAnnounced, vcSelected>>

cdVars == <<cdLive, countdownInterval, currentCountdown, isCountdownActive, isPaused,
            cdCalls, cbInvoked, cbRepeated, cdTicked, cdDecs, cdEvent,
            runPc, runIdx, runLen, runLog>>

pageVars == <<wlVars, stVars, cdVars, aqVars, vcVars>>

acVars == <<hasCaptureApi, isAutoCapturing, autoCaptureInterval, intervals,
            autoCaptureCount, currentAutoCaptureCount, slots, restartPending,
            prefPending, firstLoadPending, analyzeTimers, lastCall, strayFire>>

sqVars == <<seqKind, seqIdx, seqStatus, stepsRun, seqResolved>>

rtVars == <<hasAnalyzer, maxRetries, attempt, rPc, calls, outcomes, rtImmediate,
            delay, elapsed, waits>>

capVars == <<program, captures, currentCapture, stored, writeFailures, saves,
             capPc, track, frame, recorder, uploadPending, alerted, escaped>>

vars == <<capVars, anVars, rtVars, acVars, sqVars, pageVars>>

notCap == <<anVars, rtVars, acVars, sqVars, pageVars>>

notAn == <<capVars, rtVars, acVars, sqVars, pageVars>>

notRt == <<capVars, acVars, sqVars, pageVars>>

notAc == <<capVars, anVars, rtVars, sqVars, pageVars>>

notPage == <<capVars, anVars, rtVars, acVars, sqVars>>

notWl == <<notPage, stVars, cdVars, aqVars, vcVars>>

notSt == <<notPage, wlVars, cdVars, aqVars, vcVars>>

notCd == <<notPage, wlVars, stVars, aqVars, vcVars>>

notAq == <<notPage, wlVars, stVars, cdVars, vcVars>>

notVc == <<notPage, wlVars, stVars, cdVars, aqVars>>

Min(a, b) == IF a < b THEN a ELSE b

(***************************************************************************)
(* Array.prototype.slice(0, n) on a list.                                  *)
(***************************************************************************)
Slice0(list, n) == SubSeq(list, 1, Min(n, Len(list)))

(***************************************************************************)
(* Array.prototype.unshift(x).                                             *)
(***************************************************************************)
Unshift(list, x) == <<x>> \o list

(***************************************************************************)
(* The methods each class of src/app.js defines.                           *)
(***************************************************************************)
RaptureCaptureMethods ==
    {"initializeElements", "bindEvents", "initializeExplanationToggle",
     "showRecordingButtons", "enableActionButtons", "showAiConversation",
     "displayCapture", "updateStats", "formatBytes", "checkQuotaAndCleanup",
     "startStatsMonitoring", "saveToHistory", "loadCaptures", "downloadCapture",
     "downloadAllAsZip", "downloadAllAsHtml"}

CaptureManagerMethods == {"captureScreen", "startRecording", "stopRecording"}

(***************************************************************************)
(* The class of the object a property path of src/app.js evaluates to:     *)
(* the constructor sets rapture.captureManager = new CaptureManager(this). *)
(***************************************************************************)
MethodsOf(path) ==
    CASE path = "this.rapture" -> RaptureCaptureMethods
      [] path = "this.rapture.captureManager" -> CaptureManagerMethods

(***************************************************************************)
(* The receiver of the displayCapture call in captureScreen:               *)
(* app.js calls this.rapture.captureManager.displayCapture(bitmap, ...),   *)
(* the old page calls this.displayCapture(bitmap, ...).                    *)
(***************************************************************************)
DisplayCaptureReceiver == "this.rapture.captureManager"

(***************************************************************************)
(* Mutant of saveToHistory: the slice(0, 50) is missing.                   *)
(***************************************************************************)
SaveToHistoryList_NoSlice(list, id) == Unshift(list, id)

(***************************************************************************)
(* RaptureCapture.saveToHistory of src/app.js: unshift, then slice(0, 50). *)
(***************************************************************************)
SaveToHistoryList(list, id) == Slice0(Unshift(list, id), AppMaxCaptures)

(***************************************************************************)
(* Mutant of saveCurrentCapture: the surplus is cut from the front of the  *)
(* list (splice(0, length - max)) instead of from its end.                 *)
(***************************************************************************)
SaveCurrentCaptureList_CutFront(list, id, max) ==
    LET l == Unshift(list, id)
    IN  IF Len(l) > max THEN SubSeq(l, Len(l) - max + 1, Len(l)) ELSE l

(***************************************************************************)
(* CaptureManager.saveCurrentCapture of the accessible page: unshift, then *)
(* splice(maxCaptures) when the list is longer than maxCaptures.           *)
(***************************************************************************)
SaveCurrentCaptureList(list, id, max) ==
    LET l == Unshift(list, id)
    IN  IF Len(l) > max THEN SubSeq(l, 1, max) ELSE l

(***************************************************************************)
(* RaptureCapture.addToCaptures of the old page: unshift, then             *)
(* slice(0, 20) when the list is longer than 20.                           *)
(***************************************************************************)
AddToCapturesList(list, id) ==
    LET l == Unshift(list, id)
    IN  IF Len(l) > OldMaxCaptures THEN Slice0(l, OldMaxCaptures) ELSE l

(***************************************************************************)
(* State after construction of a page: empty storage, nothing captured.    *)
(***************************************************************************)
InitCap(p) ==
    /\ program = p
    /\ captures = <<>>
    /\ currentCapture = "null"
    /\ stored = <<>>
    /\ writeFailures = 0
    /\ saves = 0
    /\ capPc = "idle"
    /\ track = "none"
    /\ frame = "none"
    /\ recorder = "inactive"
    /\ uploadPending = FALSE
    /\ alerted = FALSE
    /\ escaped = FALSE

(***************************************************************************)
(* localStorage.setItem(key, JSON.stringify(list)): the write either       *)
(* succeeds or throws (quota exceeded), leaving the stored value as it was.*)
(***************************************************************************)
SetItem(list, ok) ==
    /\ ok \/ writeFailures < MaxWriteFailures
    /\ stored' = IF ok THEN list ELSE stored
    /\ writeFailures' = IF ok THEN writeFailures ELSE writeFailures + 1

(***************************************************************************)
(* captureScreen, up to its first await: getDisplayMedia is requested.     *)
(* (src/app.js CaptureManager.captureScreen; the old page's captureScreen, *)
(* captureWindow and captureTab have the same shape.)                      *)
(***************************************************************************)
CaptureScreenClick ==
    /\ program \in {"app", "old"}
    /\ capPc = "idle"
    /\ capPc' = "getDisplayMedia"
    /\ track' = "none"
    /\ frame' = "none"
    /\ alerted' = FALSE
    /\ UNCHANGED <<program, captures, currentCapture, stored, writeFailures, saves,
                   recorder, uploadPending, escaped>>
    /\ UNCHANGED notCap

(***************************************************************************)
(* getDisplayMedia settles: rejected -> catch -> alert; granted -> the     *)
(* track is taken and grabFrame is awaited.                                *)
(***************************************************************************)
GetDisplayMediaSettles ==
    /\ program \in {"app", "old"}
    /\ capPc = "getDisplayMedia"
    /\ \E granted \in BOOLEAN :
         IF granted
         THEN /\ capPc' = "grabFrame"
              /\ track' = "live"
              /\ alerted' = alerted
         ELSE /\ capPc' = "idle"
              /\ track' = track
              /\ alerted' = TRUE
    /\ UNCHANGED <<program, captures, currentCapture, stored, writeFailures, saves, frame,
                   recorder, uploadPending, escaped>>
    /\ UNCHANGED notCap

(***************************************************************************)
(* grabFrame settles.  Rejected -> catch -> alert (track.stop() is not     *)
(* reached).  Resolved -> displayCapture is called on the receiver; a      *)
(* receiver without that method makes the call throw a TypeError, which    *)
(* the catch block turns into the alert.  In app.js displayCapture ends    *)
(* with saveToHistory, whose localStorage.setItem may throw.               *)
(***************************************************************************)
GrabFrameSettles ==
    /\ program \in {"app", "old"}
    /\ capPc = "grabFrame"
    /\ capPc' = "idle"
    /\ \E frameOk \in BOOLEAN, storageOk \in BOOLEAN :
         IF ~frameOk
         THEN /\ frame' = "rejected"
              /\ alerted' = TRUE
              /\ UNCHANGED <<captures, currentCapture, stored, writeFailures, saves, track>>
         ELSE IF program = "old"
         THEN \* this.displayCapture(bitmap, 'screen'); track.stop();
              /\ frame' = "ok"
              /\ currentCapture' = "image"
              /\ track' = "stopped"
              /\ UNCHANGED <<captures, stored, writeFailures, saves, alerted>>
         ELSE IF "displayCapture" \notin MethodsOf(DisplayCaptureReceiver)
         THEN \* TypeError: ... .displayCapture is not a function
              /\ frame' = "ok"
              /\ alerted' = TRUE
              /\ UNCHANGED <<captures, currentCapture, stored, writeFailures, saves, track>>
         ELSE \* RaptureCapture.displayCapture, then saveToHistory, then track.stop()
              /\ saves < MaxSaves
              /\ frame' = "ok"
              /\ currentCapture' = "image"
              /\ saves' = saves + 1
              /\ captures' = SaveToHistoryList(captures, saves + 1)
              /\ SetItem(captures', storageOk)
              /\ track' = IF storageOk THEN "stopped" ELSE track
              /\ alerted' = IF storageOk THEN alerted ELSE TRUE
    /\ UNCHANGED <<program, recorder, uploadPending, escaped>>
    /\ UNCHANGED notCap

(***************************************************************************)
(* startRecording up to its await, and the stream request settling.        *)
(***************************************************************************)
StartRecordingClick ==
    /\ program \in {"app", "old"}
    /\ recorder = "inactive"
    /\ recorder' = "requesting"
    /\ UNCHANGED <<program, captures, currentCapture, stored, writeFailures, saves,
                   capPc, track, frame, uploadPending, alerted, escaped>>
    /\ UNCHANGED notCap

RecordingStreamSettles ==
    /\ program \in {"app", "old"}
    /\ recorder = "requesting"
    /\ \E granted \in BOOLEAN :
         IF granted
         THEN recorder' = "recording" /\ alerted' = alerted
         ELSE recorder' = "inactive" /\ alerted' = TRUE
    /\ UNCHANGED <<program, captures, currentCapture, stored, writeFailures, saves,
                   capPc, track, frame, uploadPending, escaped>>
    /\ UNCHANGED notCap

(***************************************************************************)
(* stopRecording: mediaRecorder.stop() when the recorder is not inactive.  *)
(***************************************************************************)
StopRecording ==
    /\ program \in {"app", "old"}
    /\ recorder = "recording"
    /\ recorder' = "stopping"
    /\ UNCHANGED <<program, captures, currentCapture, stored, writeFailures, saves,
                   capPc, track, frame, uploadPending, alerted, escaped>>
    /\ UNCHANGED notCap

(***************************************************************************)
(* mediaRecorder.onstop: the recording becomes the current capture; in     *)
(* app.js it is then saved with saveToHistory (an exception of             *)
(* localStorage.setItem leaves the event handler uncaught).                *)
(***************************************************************************)
RecorderOnStop ==
    /\ program \in {"app", "old"}
    /\ recorder = "stopping"
    /\ recorder' = "inactive"
    /\ currentCapture' = "video"
    /\ IF program = "app"
       THEN /\ saves < MaxSaves
            /\ saves' = saves + 1
            /\ captures' = SaveToHistoryList(captures, saves + 1)
            /\ \E storageOk \in BOOLEAN :
                 /\ SetItem(captures', storageOk)
                 /\ escaped' = IF storageOk THEN escaped ELSE TRUE
       ELSE UNCHANGED <<captures, stored, writeFailures, saves, escaped>>
    /\ UNCHANGED <<program, capPc, track, frame, uploadPending, alerted>>
    /\ UNCHANGED notCap

(***************************************************************************)
(* RaptureCapture.checkQuotaAndCleanup of src/app.js (run by updateStats   *)
(* every 30 s): when storage use is above 80 % of the quota, the oldest    *)
(* captures are popped while more than one is left and use is above 70 %.  *)
(* storageUsed is not refreshed inside the loop, so the loop stops at one  *)
(* entry, or at the first localStorage.setItem that throws (the exception  *)
(* is caught by updateStats): pops is the number of entries removed.       *)
(***************************************************************************)
CheckQuotaAndCleanup ==
    /\ program = "app"
    /\ Len(captures) > 1
    /\ \E pops \in 1..(Len(captures) - 1), lastWriteOk \in BOOLEAN :
         /\ lastWriteOk => pops = Len(captures) - 1
         /\ lastWriteOk \/ writeFailures < MaxWriteFailures
         /\ captures' = SubSeq(captures, 1, Len(captures) - pops)
         /\ stored' = IF lastWriteOk THEN captures'
                      ELSE IF pops = 1 THEN stored
                      ELSE SubSeq(captures, 1, Len(captures) - pops + 1)
         /\ writeFailures' = IF lastWriteOk THEN writeFailures ELSE writeFailures + 1
    /\ UNCHANGED <<program, currentCapture, saves, capPc, track, frame,
                   recorder, uploadPending, alerted, escaped>>
    /\ UNCHANGED notCap

(***************************************************************************)
(* The accessible page: a capture becomes window.currentCapture            *)
(* (AutoCaptureManager.displayCapture, CaptureManager.loadCaptureToPreview)*)
(***************************************************************************)
CaptureCreated ==
    /\ program = "accessible"
    /\ currentCapture = "null"
    /\ currentCapture' = "image"
    /\ UNCHANGED <<program, captures, stored, writeFailures, saves, capPc, track, frame,
                   recorder, uploadPending, alerted, escaped>>
    /\ UNCHANGED notCap

(***************************************************************************)
(* CaptureManager.saveCurrentCapture of the accessible page, with          *)
(* saveCaptures (whose storage exception is caught and announced).         *)
(***************************************************************************)
SaveCurrentCapture ==
    /\ program = "accessible"
    /\ currentCapture # "null"
    /\ saves < MaxSaves
    /\ saves' = saves + 1
    /\ captures' = SaveCurrentCaptureList(captures, saves + 1, maxCaptures)
    /\ \E storageOk \in BOOLEAN :
         SetItem(captures', storageOk)
    /\ UNCHANGED <<program, currentCapture, capPc, track, frame, recorder,
                   uploadPending, alerted, escaped>>
    /\ UNCHANGED notCap

(***************************************************************************)
(* CaptureManager.clearAllCaptures (after the user confirms).              *)
(***************************************************************************)
ClearAllCaptures ==
    /\ program = "accessible"
    /\ captures # <<>>
    /\ captures' = <<>>
    /\ \E storageOk \in BOOLEAN :
         SetItem(captures', storageOk)
    /\ UNCHANGED <<program, currentCapture, saves, capPc, track, frame, recorder,
                   uploadPending, alerted, escaped>>
    /\ UNCHANGED notCap

(***************************************************************************)
(* The old page: saveLocally adds the current capture to the list.         *)
(***************************************************************************)
SaveLocally ==
    /\ program = "old"
    /\ currentCapture # "null"
    /\ saves < MaxSaves
    /\ saves' = saves + 1
    /\ captures' = AddToCapturesList(captures, saves + 1)
    /\ \E storageOk \in BOOLEAN :
         /\ SetItem(captures', storageOk)
         /\ escaped' = IF storageOk THEN escaped ELSE TRUE
    /\ UNCHANGED <<program, currentCapture, capPc, track, frame, recorder,
                   uploadPending, alerted>>
    /\ UNCHANGED notCap

(***************************************************************************)
(* The old page: uploadToCloud awaits the mock upload, then adds the       *)
(* current capture to the list (an exception of addToCaptures is caught    *)
(* and alerted).                                                           *)
(***************************************************************************)
UploadToCloudClick ==
    /\ program = "old"
    /\ currentCapture # "null"
    /\ ~uploadPending
    /\ uploadPending' = TRUE
    /\ UNCHANGED <<program, captures, currentCapture, stored, writeFailures, saves,
                   capPc, track, frame, recorder, alerted, escaped>>
    /\ UNCHANGED notCap

UploadSettles ==
    /\ program = "old"
    /\ uploadPending
    /\ uploadPending' = FALSE
    /\ saves < MaxSaves
    /\ saves' = saves + 1
    /\ captures' = AddToCapturesList(captures, saves + 1)
    /\ \E storageOk \in BOOLEAN :
         /\ SetItem(captures', storageOk)
         /\ alerted' = IF storageOk THEN alerted ELSE TRUE
    /\ UNCHANGED <<program, currentCapture, capPc, track, frame, recorder,
                   escaped>>
    /\ UNCHANGED notCap

(***************************************************************************)
(*                      The AI analyzer (AIAnalyzer)                       *)
(***************************************************************************)

(***************************************************************************)
(* The provider map of RaptureAccessible.setupAIProviders (part_006), in   *)
(* insertion order, and the providers that need an API key.                *)
(***************************************************************************)
ProviderKeys == <<"huggingface", "openai", "anthropic", "google", "cohere">>

ProviderSet == {ProviderKeys[i] : i \in 1..Len(ProviderKeys)}

RequiresKey(k) == k # "huggingface"

(***************************************************************************)
(* The string the analyzer derives from provider.name:                     *)
(* name.toLowerCase().replace(' ', '') in ai-analyzer.js (the first space  *)
(* only), name.toLowerCase().replace(/[^a-z0-9]/g, '') in part_004.        *)
(* Names: 'Hugging Face', 'OpenAI GPT-4o', 'Anthropic Claude',             *)
(* 'Google Gemini', 'Cohere'.                                              *)
(***************************************************************************)
NormName(build, k) ==
    CASE k = "huggingface" -> "huggingface"
      [] k = "openai" -> IF build = "part_004" THEN "openaigpt4o" ELSE "openaigpt-4o"
      [] k = "anthropic" -> "anthropicclaude"
      [] k = "google" -> "googlegemini"
      [] k = "cohere" -> "cohere"

(***************************************************************************)
(* The case labels of the switch in performAnalysis.                       *)
(***************************************************************************)
SwitchCases(build) ==
    {"huggingface", "openai", "anthropic", "google", "cohere"} \cup
    (IF build = "part_004"
     THEN {"axiom", "axiomai", "aivision", "putergemini", "googlegeminiputer"}
     ELSE {})

(***************************************************************************)
(* testProvider can return true only for a provider that needs no key or   *)
(* whose derived name is a key of apiKeys; the test request decides then.  *)
(***************************************************************************)
TestCanPass(build, keys, k) == ~RequiresKey(k) \/ NormName(build, k) \in keys

(***************************************************************************)
(* performAnalysis can resolve only for a provider whose derived name is a *)
(* case of the switch and, for the keyed providers, whose API key is set   *)
(* (apiKeys.get('openai') ...); the provider's request decides then.       *)
(***************************************************************************)
CanAnalyze(build, keys, k) ==
    /\ NormName(build, k) \in SwitchCases(build)
    /\ (RequiresKey(k) => NormName(build, k) \in keys)

(***************************************************************************)
(* getAvailableProvider: the current provider if its test passes, else the *)
(* first other provider of the map whose test passes, else null.           *)
(* passing is the set of providers whose test request answers ok.          *)
(***************************************************************************)
GetAvailableProvider(current, passing) ==
    IF current \in passing THEN current
    ELSE LET others == {i \in 1..Len(ProviderKeys) :
                          ProviderKeys[i] # current /\ ProviderKeys[i] \in passing}
         IN  IF others = {} THEN "null"
             ELSE ProviderKeys[CHOOSE i \in others : \A j \in others : i <= j]

(***************************************************************************)
(* The hardcoded fallback list: 'huggingface' in ai-analyzer.js; the order *)
(* 'puter-gemini', 'axiom', 'aivision', 'huggingface' in part_004.         *)
(***************************************************************************)
FallbackOrder(build) ==
    IF build = "part_004"
    THEN <<"puter-gemini", "axiom", "aivision", "huggingface">>
    ELSE <<"huggingface">>

(***************************************************************************)
(* getFallbackProvider: null without the main application's provider map;  *)
(* ai-analyzer.js returns aiProviders.get('huggingface') untested; part_004*)
(* returns the first provider of its list that is in the map and passes    *)
(* testProvider, else null.                                                *)
(***************************************************************************)
GetFallbackProvider(build, hasProviders, passing) ==
    IF ~hasProviders THEN "null"
    ELSE LET order == FallbackOrder(build)
             ok == {i \in 1..Len(order) :
                      /\ order[i] \in ProviderSet
                      /\ (build = "part_004" => order[i] \in passing)}
         IN  IF ok = {} THEN "null"
             ELSE order[CHOOSE i \in ok : \A j \in ok : i <= j]

(***************************************************************************)
(* addToHistory: unshift, keep the last 50.                                *)
(***************************************************************************)
AddToHistoryList(list, name) ==
    LET l == <<name>> \o list
    IN  IF Len(l) > HistoryMax THEN SubSeq(l, 1, HistoryMax) ELSE l

(***************************************************************************)
(* State of the analyzer after construction, for a given configuration.    *)
(***************************************************************************)
InitAn(build, hasProviders, keys) ==
    /\ analyzerBuild = build
    /\ mainAppProviders = hasProviders
    /\ apiKeys = keys
    /\ anCapture = FALSE
    /\ isAnalyzing = FALSE
    /\ currentAnalysis = ""
    /\ analysisHistory = <<>>
    /\ anPc = "idle"
    /\ anCaller = "none"
    /\ anProvider = "null"
    /\ primaryFailure = "none"
    /\ fbProvider = "null"
    /\ fbRequest = "none"
    /\ fbAttempts = 0
    /\ anResult = "none"
    /\ anText = ""
    /\ anError = "none"
    /\ userCalls = 0

IdleAn == InitAn("ai-analyzer.js", FALSE, {})

(***************************************************************************)
(* analyzeWithAI up to its first await, for a call that passes the two     *)
(* guards (no analysis in progress, a capture available).                  *)
(***************************************************************************)
AnalyzeStart(caller, cfg) ==
    /\ isAnalyzing' = TRUE
    /\ currentAnalysis' = ""
    /\ anCaller' = caller
    /\ anProvider' = cfg
    /\ anPc' = IF cfg = "null" THEN "select" ELSE "primary"
    /\ primaryFailure' = "none"
    /\ fbProvider' = "null"
    /\ fbRequest' = "none"
    /\ fbAttempts' = 0
    /\ anResult' = "none"
    /\ anText' = ""
    /\ anError' = "none"
    /\ UNCHANGED <<analyzerBuild, mainAppProviders, apiKeys, anCapture,
                   analysisHistory>>

(***************************************************************************)
(* Mutant of the guards: the test of isAnalyzing is missing.               *)
(***************************************************************************)
AnalyzeRefused_NoBusyTest == ~anCapture

(***************************************************************************)
(* The guards of analyzeWithAI: the call returns undefined at once.        *)
(***************************************************************************)
AnalyzeRefused == isAnalyzing \/ ~anCapture

(***************************************************************************)
(* A capture is produced; the analyzer can see it from now on.             *)
(***************************************************************************)
AnCaptureCreated ==
    /\ ~anCapture
    /\ anCapture' = TRUE
    /\ UNCHANGED <<analyzerBuild, mainAppProviders, apiKeys, isAnalyzing,
                   currentAnalysis, analysisHistory, anPc, anCaller, anProvider,
                   primaryFailure, fbProvider, fbRequest, fbAttempts, anResult,
                   anText, anError, userCalls>>
    /\ UNCHANGED notAn

(***************************************************************************)
(* The Analyze button and Ctrl+A (analyzeWithAI()), and part_006's         *)
(* handleAnalyzeCurrent (analyzeWithAI(provider)).                         *)
(***************************************************************************)
UserAnalyze ==
    /\ userCalls < MaxUserCalls
    /\ ~(rPc = "awaitAnalyze" /\ (rtImmediate \/ (anCaller = "retry" /\ anPc = "idle")))
    /\ userCalls' = userCalls + 1
    /\ \E cfg \in {"null"} \cup (IF mainAppProviders THEN ProviderSet ELSE {}) :
         IF AnalyzeRefused
         THEN UNCHANGED <<analyzerBuild, mainAppProviders, apiKeys, anCapture,
                          isAnalyzing, currentAnalysis, analysisHistory, anPc,
                          anCaller, anProvider, primaryFailure, fbProvider,
                          fbRequest, fbAttempts, anResult, anText, anError>>
         ELSE AnalyzeStart("user", cfg)
    /\ UNCHANGED notAn

(***************************************************************************)
(* The catch block of analyzeWithAI is entered: the fallback provider is   *)
(* awaited next.                                                           *)
(***************************************************************************)
EnterCatch(why) ==
    /\ primaryFailure' = why
    /\ anPc' = "fallbackSelect"

(***************************************************************************)
(* A call ends (after finally): isAnalyzing is reset.                      *)
(***************************************************************************)
EndCall(result, text, error) ==
    /\ anPc' = "idle"
    /\ isAnalyzing' = FALSE
    /\ anResult' = result
    /\ anText' = text
    /\ anError' = error

(***************************************************************************)
(* getAvailableProvider settles: it throws without the provider map; null  *)
(* makes analyzeWithAI throw 'No available AI provider found'; a provider  *)
(* starts performAnalysis.                                                 *)
(***************************************************************************)
SelectSettles ==
    /\ anPc = "select"
    /\ IF ~mainAppProviders
       THEN /\ EnterCatch("mainAppMissing")
            /\ UNCHANGED anProvider
       ELSE \E current \in ProviderSet,
               passing \in SUBSET {k \in ProviderSet :
                                     TestCanPass(analyzerBuild, apiKeys, k)} :
              LET p == GetAvailableProvider(current, passing)
              IN  IF p = "null"
                  THEN EnterCatch("noProvider") /\ UNCHANGED anProvider
                  ELSE /\ anProvider' = p
                       /\ anPc' = "primary"
                       /\ UNCHANGED primaryFailure
    /\ UNCHANGED <<analyzerBuild, mainAppProviders, apiKeys, anCapture, isAnalyzing,
                   currentAnalysis, analysisHistory, anCaller, fbProvider,
                   fbRequest, fbAttempts, anResult, anText, anError, userCalls>>
    /\ UNCHANGED notAn

(***************************************************************************)
(* performAnalysis(provider) settles.  Resolved: the text is stored and    *)
(* added to the history; saveAnalysisHistory may throw, which lands in the *)
(* catch block like a failed request.  Rejected: the catch block.          *)
(***************************************************************************)
PrimarySettles ==
    /\ anPc = "primary"
    /\ \E requestOk \in BOOLEAN, storageOk \in BOOLEAN :
         IF requestOk /\ CanAnalyze(analyzerBuild, apiKeys, anProvider)
         THEN /\ Len(analysisHistory) < MaxAnalyses
              /\ currentAnalysis' = anProvider
              /\ analysisHistory' = AddToHistoryList(analysisHistory, anProvider)
              /\ IF storageOk
                 THEN /\ EndCall("value", anProvider, "none")
                      /\ UNCHANGED primaryFailure
                 ELSE /\ EnterCatch("historyWrite")
                      /\ UNCHANGED <<isAnalyzing, anResult, anText, anError>>
         ELSE /\ EnterCatch("requestThrew")
              /\ UNCHANGED <<isAnalyzing, currentAnalysis, analysisHistory,
                             anResult, anText, anError>>
    /\ UNCHANGED <<analyzerBuild, mainAppProviders, apiKeys, anCapture, anCaller,
                   anProvider, fbProvider, fbRequest, fbAttempts, userCalls>>
    /\ UNCHANGED notAn

(***************************************************************************)
(* getFallbackProvider settles: without a fallback the original error is   *)
(* rethrown; with one, performAnalysis(fallbackProvider) is started.       *)
(***************************************************************************)
FallbackSelectSettles ==
    /\ anPc = "fallbackSelect"
    /\ \E passing \in SUBSET {k \in ProviderSet :
                                TestCanPass(analyzerBuild, apiKeys, k)} :
         LET f == GetFallbackProvider(analyzerBuild, mainAppProviders, passing)
         IN  IF f = "null"
             THEN /\ EndCall("throw", "", "primary")
                  /\ fbRequest' = "absent"
                  /\ UNCHANGED <<fbProvider, fbAttempts>>
             ELSE /\ anPc' = "fallback"
                  /\ fbProvider' = f
                  /\ fbAttempts' = fbAttempts + 1
                  /\ UNCHANGED <<isAnalyzing, fbRequest, anResult, anText, anError>>
    /\ UNCHANGED <<analyzerBuild, mainAppProviders, apiKeys, anCapture,
                   currentAnalysis, analysisHistory, anCaller, anProvider,
                   primaryFailure, userCalls>>
    /\ UNCHANGED notAn

(***************************************************************************)
(* performAnalysis(fallbackProvider) settles.  Resolved: the text is       *)
(* stored, added to the history under the fallback's name and returned;    *)
(* an exception of saveAnalysisHistory is caught by the inner catch and    *)
(* rethrown.  Rejected: the inner catch rethrows the fallback's error.     *)
(***************************************************************************)
FallbackSettles ==
    /\ anPc = "fallback"
    /\ \E requestOk \in BOOLEAN, storageOk \in BOOLEAN :
         IF requestOk /\ CanAnalyze(analyzerBuild, apiKeys, fbProvider)
         THEN /\ Len(analysisHistory) < MaxAnalyses
              /\ fbRequest' = "ok"
              /\ currentAnalysis' = fbProvider
              /\ analysisHistory' = AddToHistoryList(analysisHistory, fbProvider)
              /\ IF storageOk
                 THEN EndCall("value", fbProvider, "none")
                 ELSE EndCall("throw", "", "fallback")
         ELSE /\ fbRequest' = "failed"
              /\ EndCall("throw", "", "fallback")
              /\ UNCHANGED <<currentAnalysis, analysisHistory>>
    /\ UNCHANGED <<analyzerBuild, mainAppProviders, apiKeys, anCapture, anCaller,
                   anProvider, primaryFailure, fbProvider, fbAttempts, userCalls>>
    /\ UNCHANGED notAn

(***************************************************************************)
(*          RaptureAccessible.performAnalysisWithRetry (main.js)           *)
(***************************************************************************)

(***************************************************************************)
(* Mutant of the give-up test: === replaced by >.                          *)
(***************************************************************************)
GivesUp_Greater(k, max) == k > max

(***************************************************************************)
(* The test of the catch block: if (attempt === maxRetries) throw ...      *)
(***************************************************************************)
GivesUp(k, max) == k = max

(***************************************************************************)
(* Mutant of the backoff delay: a fixed wait of one second.                *)
(***************************************************************************)
BackoffDelay_Fixed(k) == BackoffUnit

(***************************************************************************)
(* The delay of the wait after the k-th failed attempt: 1000 * attempt.    *)
(***************************************************************************)
BackoffDelay(k) == BackoffUnit * k

(***************************************************************************)
(* Mutant of the timer: the callback is never run.                         *)
(***************************************************************************)
TimerDue_Never(e, d) == FALSE

(***************************************************************************)
(* setTimeout(resolve, d): the callback runs once at least d ms have       *)
(* passed.                                                                 *)
(***************************************************************************)
TimerDue(e, d) == e >= d

InitRt(present, max) ==
    /\ hasAnalyzer = present
    /\ maxRetries = max
    /\ attempt = 0
    /\ rPc = "idle"
    /\ calls = 0
    /\ outcomes = <<>>
    /\ rtImmediate = FALSE
    /\ delay = 0
    /\ elapsed = 0
    /\ waits = <<>>

IdleRt == InitRt(TRUE, DefaultMaxRetries)

(***************************************************************************)
(* The catch block of the loop body for attempt k: rethrow on the last     *)
(* attempt, else start the backoff timer.                                  *)
(***************************************************************************)
AttemptThrew(k) ==
    /\ attempt' = k
    /\ outcomes' = Append(outcomes, "threw")
    /\ rtImmediate' = FALSE
    /\ IF GivesUp(k, maxRetries)
       THEN /\ rPc' = "thrown"
            /\ UNCHANGED <<delay, elapsed>>
       ELSE /\ rPc' = "backoff"
            /\ delay' = BackoffDelay(k)
            /\ elapsed' = 0

(***************************************************************************)
(* The loop from the test attempt <= maxRetries up to the next await:      *)
(* past the last attempt the function returns; without window.aiAnalyzer   *)
(* the attempt throws at once; else analyzeWithAI() is called and awaited. *)
(***************************************************************************)
LoopFrom(k) ==
    IF k > maxRetries
    THEN /\ rPc' = "returned"
         /\ UNCHANGED <<attempt, calls, outcomes, rtImmediate, delay, elapsed>>
         /\ UNCHANGED anVars
    ELSE IF ~hasAnalyzer
    THEN /\ AttemptThrew(k)
         /\ UNCHANGED calls
         /\ UNCHANGED anVars
    ELSE /\ attempt' = k
         /\ calls' = calls + 1
         /\ rPc' = "awaitAnalyze"
         /\ UNCHANGED <<outcomes, delay, elapsed>>
         /\ IF AnalyzeRefused
            THEN rtImmediate' = TRUE /\ UNCHANGED anVars
            ELSE rtImmediate' = FALSE /\ AnalyzeStart("retry", "null")
                   /\ UNCHANGED userCalls

(***************************************************************************)
(* performAnalysisWithRetry() is called (maxRetries as given).             *)
(***************************************************************************)
RetryCall ==
    /\ rPc = "idle"
    /\ LoopFrom(1)
    /\ UNCHANGED <<hasAnalyzer, maxRetries, waits>>
    /\ UNCHANGED notRt

(***************************************************************************)
(* The awaited analyzeWithAI() settles for the retry loop: a value or      *)
(* undefined announces 'Analysis completed (attempt k)' and returns; a     *)
(* rejection runs the catch block.                                         *)
(***************************************************************************)
RetryAwaitSettles ==
    /\ rPc = "awaitAnalyze"
    /\ rtImmediate \/ (anCaller = "retry" /\ anPc = "idle")
    /\ LET result == IF rtImmediate THEN "undefined" ELSE anResult
       IN  IF result = "throw"
           THEN /\ AttemptThrew(attempt)
                /\ UNCHANGED calls
           ELSE /\ rPc' = "returned"
                /\ outcomes' = Append(outcomes, "ok")
                /\ rtImmediate' = FALSE
                /\ UNCHANGED <<attempt, calls, delay, elapsed>>
    /\ anCaller' = IF rtImmediate THEN anCaller ELSE "none"
    /\ UNCHANGED <<analyzerBuild, mainAppProviders, apiKeys, anCapture, isAnalyzing,
                   currentAnalysis, analysisHistory, anPc, anProvider,
                   primaryFailure, fbProvider, fbRequest, fbAttempts, anResult,
                   anText, anError, userCalls>>
    /\ UNCHANGED <<hasAnalyzer, maxRetries, waits>>
    /\ UNCHANGED notRt

(***************************************************************************)
(* Time passes while the backoff timer is pending.  A timer may fire late:  *)
(* elapsed = delay + 1000 stands for every later time.                     *)
(***************************************************************************)
BackoffTick ==
    /\ rPc = "backoff"
    /\ elapsed <= delay
    /\ elapsed' = elapsed + BackoffUnit
    /\ UNCHANGED <<hasAnalyzer, maxRetries, attempt, rPc, calls, outcomes,
                   rtImmediate, delay, waits>>
    /\ UNCHANGED <<notRt, anVars>>

(***************************************************************************)
(* The backoff timer fires (not before its delay): the loop goes on with   *)
(* the next attempt.                                                       *)
(***************************************************************************)
BackoffFires ==
    /\ rPc = "backoff"
    /\ TimerDue(elapsed, delay)
    /\ waits' = Append(waits, elapsed)
    /\ LoopFrom(attempt + 1)
    /\ UNCHANGED <<hasAnalyzer, maxRetries>>
    /\ UNCHANGED notRt

(***************************************************************************)
(*                AutoCaptureManager (4blind/js/auto-capture.js)           *)
(***************************************************************************)

NoCall == [caller |-> "none", success |-> FALSE, settled |-> "none",
           announced |-> "none", callerPromise |-> "none"]

(***************************************************************************)
(* The callers of captureScreen: performAutoCapture, emergencyCapture, the *)
(* two manual captures from their buttons, and the two manual captures     *)
(* awaited by ensureCaptureAvailable.                                      *)
(***************************************************************************)
CallKinds == {"auto", "emergency", "manualScreen", "manualVideo", "seqScreen", "seqVideo"}

CallerOf(k) ==
    CASE k = "seqScreen" -> "manualScreen"
      [] k = "seqVideo" -> "manualVideo"
      [] OTHER -> k

InFlight(sl) ==
    sl["auto"] + sl["emergency"] + sl["manualScreen"] + sl["manualVideo"]
      + sl["seqScreen"] + sl["seqVideo"]

HasFreeSlot(sl) == InFlight(sl) < MaxInflight

(***************************************************************************)
(* captureScreen() is called by k: its promise is pending (without the     *)
(* capture API it is already resolved with {success: false}; the caller's  *)
(* continuation is pending like any other).                                *)
(***************************************************************************)
CaptureScreenCall(sl, k) == [sl EXCEPT ![k] = @ + 1]

(***************************************************************************)
(* The ways a captureScreen call can end.                                  *)
(***************************************************************************)
Outcomes ==
    IF hasCaptureApi
    THEN {"rejected", "noTrack", "imageCaptureThrew", "grabRejected", "displayThrew",
          "frame"}
    ELSE {"unsupported"}

(***************************************************************************)
(* setInterval returns a handle that no live timer has.                    *)
(***************************************************************************)
SetInterval(live) == CHOOSE n \in 1..(Cardinality(live) + 1) : n \notin live

(***************************************************************************)
(* Mutant of clearInterval: the timer stays registered.                    *)
(***************************************************************************)
ClearInterval_Noop(live, h) == live

(***************************************************************************)
(* clearInterval(h).                                                       *)
(***************************************************************************)
ClearInterval(live, h) == live \ {h}

(***************************************************************************)
(* Mutant of the failure paths of captureScreen: the promise is rejected.  *)
(***************************************************************************)
FailureSettlement_Reject == "rejected"

(***************************************************************************)
(* Every failure path of captureScreen calls resolve({success: false,      *)
(* error}): the early return, the two .catch handlers and the catch block. *)
(***************************************************************************)
FailureSettlement == "resolved"

(***************************************************************************)
(* setAutoCaptureCount: Math.max(1, Math.min(10, count)).                  *)
(***************************************************************************)
ClampCount(n) == IF n < 1 THEN 1 ELSE IF n > CountCeiling THEN CountCeiling ELSE n

InitAc(api, count, pref) ==
    /\ hasCaptureApi = api
    /\ isAutoCapturing = FALSE
    /\ autoCaptureInterval = 0
    /\ intervals = {}
    /\ autoCaptureCount = count
    /\ currentAutoCaptureCount = 0
    /\ slots = [k \in CallKinds |-> 0]
    /\ restartPending = 0
    /\ prefPending = pref
    /\ firstLoadPending = TRUE
    /\ analyzeTimers = 0
    /\ lastCall = NoCall
    /\ strayFire = FALSE

IdleAc == InitAc(TRUE, DefaultAutoCount, FALSE)

InitSq ==
    /\ seqKind = "none"
    /\ seqIdx = 0
    /\ seqStatus = "none"
    /\ stepsRun = <<>>
    /\ seqResolved = 0

(***************************************************************************)
(* stopAutoCapture: nothing unless capturing; else the flag is reset, the  *)
(* interval cleared and forgotten, the counter reset.                      *)
(***************************************************************************)
StopAutoCapture ==
    IF ~isAutoCapturing
    THEN UNCHANGED <<isAutoCapturing, autoCaptureInterval, intervals,
                     currentAutoCaptureCount>>
    ELSE /\ isAutoCapturing' = FALSE
         /\ intervals' = IF autoCaptureInterval # 0
                         THEN ClearInterval(intervals, autoCaptureInterval)
                         ELSE intervals
         /\ autoCaptureInterval' = 0
         /\ currentAutoCaptureCount' = 0

(***************************************************************************)
(* startAutoCapture: nothing if already capturing; else the flag is set,   *)
(* the counter reset, performAutoCapture() run up to its await (counter    *)
(* incremented, captureScreen called) and the interval registered.         *)
(***************************************************************************)
StartAutoCapture ==
    IF isAutoCapturing
    THEN UNCHANGED <<isAutoCapturing, autoCaptureInterval, intervals,
                     currentAutoCaptureCount, slots>>
    ELSE /\ HasFreeSlot(slots)
         /\ isAutoCapturing' = TRUE
         /\ currentAutoCaptureCount' = 1
         /\ slots' = CaptureScreenCall(slots, "auto")
         /\ LET h == SetInterval(intervals)
            IN  /\ intervals' = intervals \cup {h}
                /\ autoCaptureInterval' = h

(***************************************************************************)
(* The Auto Capture button, Alt+C, Alt+1, the 'auto' shortcut.             *)
(***************************************************************************)
ToggleAutoCapture ==
    /\ IF isAutoCapturing
       THEN StopAutoCapture /\ UNCHANGED slots
       ELSE StartAutoCapture
    /\ UNCHANGED <<hasCaptureApi, autoCaptureCount, restartPending,
                   prefPending, firstLoadPending, analyzeTimers, lastCall, strayFire>>
    /\ UNCHANGED notAc

(***************************************************************************)
(* setAutoCaptureDelay: while capturing, stop and start again 100 ms later.*)
(***************************************************************************)
SetAutoCaptureDelay ==
    /\ IF isAutoCapturing
       THEN /\ restartPending < MaxPendingRestarts
            /\ StopAutoCapture
            /\ restartPending' = restartPending + 1
       ELSE UNCHANGED <<isAutoCapturing, autoCaptureInterval, intervals,
                        currentAutoCaptureCount, restartPending>>
    /\ UNCHANGED <<hasCaptureApi, autoCaptureCount, slots,
                   prefPending, firstLoadPending, analyzeTimers, lastCall, strayFire>>
    /\ UNCHANGED notAc

(***************************************************************************)
(* setAutoCaptureCount(count).                                             *)
(***************************************************************************)
SetAutoCaptureCount ==
    /\ \E n \in 0..MaxAutoCount : autoCaptureCount' = ClampCount(n)
    /\ UNCHANGED <<hasCaptureApi, isAutoCapturing,
                   autoCaptureInterval, intervals, currentAutoCaptureCount, slots,
                   restartPending, prefPending, firstLoadPending, analyzeTimers,
                   lastCall, strayFire>>
    /\ UNCHANGED notAc

(***************************************************************************)
(* The 100 ms timer of setAutoCaptureDelay fires: startAutoCapture().      *)
(***************************************************************************)
RestartTimerFires ==
    /\ restartPending > 0
    /\ restartPending' = restartPending - 1
    /\ StartAutoCapture
    /\ UNCHANGED <<hasCaptureApi, autoCaptureCount, prefPending,
                   firstLoadPending, analyzeTimers, lastCall, strayFire>>
    /\ UNCHANGED notAc

(***************************************************************************)
(* The 2 s timer of loadUserPreferences (preferences.autoCaptureEnabled)   *)
(* fires: startAutoCapture().                                              *)
(***************************************************************************)
PreferenceTimerFires ==
    /\ prefPending
    /\ prefPending' = FALSE
    /\ StartAutoCapture
    /\ UNCHANGED <<hasCaptureApi, autoCaptureCount, restartPending,
                   firstLoadPending, analyzeTimers, lastCall, strayFire>>
    /\ UNCHANGED notAc

(***************************************************************************)
(* The 3 s timer of setupFirstLoadAutoCapture fires: performAutoCapture()  *)
(* unless manual capture mode (a saved setting, on by default) is on.      *)
(***************************************************************************)
FirstLoadTimerFires ==
    /\ firstLoadPending
    /\ firstLoadPending' = FALSE
    /\ \E manualCaptureMode \in BOOLEAN :
         IF manualCaptureMode
         THEN UNCHANGED <<currentAutoCaptureCount, slots>>
         ELSE /\ HasFreeSlot(slots)
              /\ currentAutoCaptureCount < MaxAttempts
              /\ currentAutoCaptureCount' = currentAutoCaptureCount + 1
              /\ slots' = CaptureScreenCall(slots, "auto")
    /\ UNCHANGED <<hasCaptureApi, isAutoCapturing,
                   autoCaptureInterval, intervals, autoCaptureCount, restartPending,
                   prefPending, analyzeTimers, lastCall, strayFire>>
    /\ UNCHANGED notAc

(***************************************************************************)
(* this.currentAutoCaptureCount++ (line 277).  The counter is followed up  *)
(* to MaxAttempts, which is above every autoCaptureCount of the model;     *)
(* from there on its value stands for "MaxAttempts or more", which the     *)
(* comparison with autoCaptureCount does not tell from the exact value.    *)
(***************************************************************************)
CountUp(n) == IF n < MaxAttempts THEN n + 1 ELSE n

(***************************************************************************)
(* A registered interval timer fires: performAutoCapture() up to its await.*)
(* strayFire records a firing that found auto capture stopped, or that     *)
(* came from a timer other than the one startAutoCapture stored.           *)
(***************************************************************************)
IntervalFires ==
    /\ \E h \in intervals :
         strayFire' = (strayFire \/ ~isAutoCapturing \/ h # autoCaptureInterval)
    /\ HasFreeSlot(slots)
    /\ currentAutoCaptureCount' = CountUp(currentAutoCaptureCount)
    /\ slots' = CaptureScreenCall(slots, "auto")
    /\ UNCHANGED <<hasCaptureApi, isAutoCapturing,
                   autoCaptureInterval, intervals, autoCaptureCount, restartPending,
                   prefPending, firstLoadPending, analyzeTimers, lastCall>>
    /\ UNCHANGED notAc

(***************************************************************************)
(* emergencyCapture() up to its await.                                     *)
(***************************************************************************)
EmergencyCapture ==
    /\ HasFreeSlot(slots)
    /\ Len(captures) < MaxEmergencySaves
    /\ slots' = CaptureScreenCall(slots, "emergency")
    /\ UNCHANGED <<hasCaptureApi, isAutoCapturing,
                   autoCaptureInterval, intervals, autoCaptureCount,
                   currentAutoCaptureCount, restartPending, prefPending,
                   firstLoadPending, analyzeTimers, lastCall, strayFire>>
    /\ UNCHANGED notAc

(***************************************************************************)
(* manualScreenCapture() from its button, up to its await.                 *)
(***************************************************************************)
ManualScreenCapture ==
    /\ HasFreeSlot(slots)
    /\ slots' = CaptureScreenCall(slots, "manualScreen")
    /\ UNCHANGED <<hasCaptureApi, isAutoCapturing,
                   autoCaptureInterval, intervals, autoCaptureCount,
                   currentAutoCaptureCount, restartPending, prefPending,
                   firstLoadPending, analyzeTimers, lastCall, strayFire>>
    /\ UNCHANGED notAc

(***************************************************************************)
(* manualVideoCapture() from its button, up to its await.                  *)
(***************************************************************************)
ManualVideoCapture ==
    /\ HasFreeSlot(slots)
    /\ slots' = CaptureScreenCall(slots, "manualVideo")
    /\ UNCHANGED <<hasCaptureApi, isAutoCapturing,
                   autoCaptureInterval, intervals, autoCaptureCount,
                   currentAutoCaptureCount, restartPending, prefPending,
                   firstLoadPending, analyzeTimers, lastCall, strayFire>>
    /\ UNCHANGED notAc

(***************************************************************************)
(* A timer set after a successful capture fires: analyzeWithAI() is called *)
(* inside a try/catch that logs.                                           *)
(***************************************************************************)
AnalyzeTimerFires ==
    /\ analyzeTimers > 0
    /\ analyzeTimers' = analyzeTimers - 1
    /\ IF AnalyzeRefused
       THEN UNCHANGED anVars
       ELSE AnalyzeStart("auto", "null") /\ UNCHANGED userCalls
    /\ UNCHANGED <<hasCaptureApi, isAutoCapturing,
                   autoCaptureInterval, intervals, autoCaptureCount,
                   currentAutoCaptureCount, slots, restartPending, prefPending,
                   firstLoadPending, lastCall, strayFire>>
    /\ UNCHANGED <<capVars, rtVars, sqVars, pageVars>>

(***************************************************************************)
(*     The Quick and Full sequences of RaptureAccessible (main.js)         *)
(***************************************************************************)

(***************************************************************************)
(* The awaited steps of startEnhancedQuickSequence and                     *)
(* startEnhancedFullSequence, in program order ("enable" is the            *)
(* synchronous enableAnalysisWhenReady).                                   *)
(***************************************************************************)
Steps(kind) ==
    IF kind = "full"
    THEN <<"capture", "captureVideo", "preview", "enable", "analyze", "read", "save">>
    ELSE <<"capture", "preview", "enable", "analyze", "save">>

(***************************************************************************)
(* manualScreenCapture and manualVideoCapture have no return statement:    *)
(* their promise resolves to undefined.                                    *)
(***************************************************************************)
ManualCaptureReturn == "undefined"

(***************************************************************************)
(* ensureCaptureAvailable: if (captureResult) resolve(...) else reject(...)*)
(***************************************************************************)
EnsureResolves(ret) == ret # "undefined"

(***************************************************************************)
(* Mutant of the try block: a rejected step is ignored.                    *)
(***************************************************************************)
AfterStep_Swallow(ok) == "continue"

(***************************************************************************)
(* Each step is awaited inside one try block: a rejection jumps to the     *)
(* catch block, a resolution goes on with the next statement.              *)
(***************************************************************************)
AfterStep(ok) == IF ok THEN "continue" ELSE "catch"

(***************************************************************************)
(* The sequence goes on after the awaited step settled (ok: resolved):     *)
(* the catch block sets the failure status; else the next steps are        *)
(* started up to the next await, or the success status is set.  sl is the  *)
(* state of the capture calls at that point.                               *)
(***************************************************************************)
SeqAdvance(sl, ok) ==
    LET order == Steps(seqKind)
        i == seqIdx + 1
        j == IF i <= Len(order) /\ order[i] = "enable" THEN i + 1 ELSE i
        done == IF ok THEN 1 ELSE 0
    IN  /\ UNCHANGED seqKind
        /\ IF AfterStep(ok) = "catch"
           THEN /\ seqStatus' = "failed"
                /\ seqIdx' = 0
                /\ slots' = sl
                /\ UNCHANGED <<stepsRun, seqResolved>>
           ELSE IF i > Len(order)
           THEN /\ seqStatus' = "completed"
                /\ seqIdx' = 0
                /\ seqResolved' = seqResolved + done
                /\ slots' = sl
                /\ UNCHANGED stepsRun
           ELSE /\ seqStatus' = "running"
                /\ seqIdx' = j
                /\ stepsRun' = stepsRun \o SubSeq(order, i, j)
                /\ seqResolved' = seqResolved + done + (j - i)
                /\ IF order[j] = "captureVideo"
                   THEN /\ HasFreeSlot(sl)
                        /\ slots' = CaptureScreenCall(sl, "seqVideo")
                   ELSE slots' = sl

(***************************************************************************)
(* A sequence button is pressed while no sequence runs (the first step,    *)
(* ensureCaptureAvailable('screen'), calls manualScreenCapture), or a step *)
(* other than a capture settles: waitForLivePreview,                       *)
(* performAnalysisWithRetry, readAnalysisAloud, saveSequenceResults each   *)
(* resolve or reject.                                                      *)
(***************************************************************************)
SequenceStep ==
    /\ IF seqIdx = 0
       THEN /\ HasFreeSlot(slots)
            /\ \E kind \in {"quick", "full"} : seqKind' = kind
            /\ seqStatus' = "running"
            /\ seqIdx' = 1
            /\ stepsRun' = <<"capture">>
            /\ seqResolved' = 0
            /\ slots' = CaptureScreenCall(slots, "seqScreen")
       ELSE /\ Steps(seqKind)[seqIdx] \notin {"capture", "captureVideo"}
            /\ \E ok \in BOOLEAN : SeqAdvance(slots, ok)
    /\ UNCHANGED <<hasCaptureApi, isAutoCapturing,
                   autoCaptureInterval, intervals, autoCaptureCount,
                   currentAutoCaptureCount, restartPending, prefPending,
                   firstLoadPending, analyzeTimers, lastCall, strayFire>>
    /\ UNCHANGED <<capVars, anVars, rtVars, pageVars>>

(***************************************************************************)
(* The promise of a captureScreen call of kind k settles (ok: with         *)
(* {success: true}) and its caller goes on.  performAutoCapture: on        *)
(* success an analysis timer (if auto-analyze is on) and stopAutoCapture   *)
(* once the counter has reached autoCaptureCount; on failure               *)
(* announceError.  emergencyCapture: on success an analysis timer and      *)
(* saveCurrentCapture.  The manual captures announce and return undefined  *)
(* to whoever awaits them.  displayCapture has set window.currentCapture   *)
(* on success.                                                             *)
(***************************************************************************)
CaptureSettled(k, ok) ==
    LET c == CallerOf(k)
        freed == [slots EXCEPT ![k] = @ - 1]
    IN  /\ lastCall' = [caller |-> c,
                        success |-> ok,
                        settled |-> IF ok THEN "resolved" ELSE FailureSettlement,
                        announced |-> IF ok THEN "success" ELSE "error",
                        callerPromise |-> "resolved"]
        /\ currentCapture' = IF ok THEN "image" ELSE currentCapture
        /\ IF ok /\ c = "emergency"
           THEN /\ saves' = saves + 1
                /\ captures' = SaveCurrentCaptureList(captures, saves + 1, maxCaptures)
                /\ \E storageOk \in BOOLEAN : SetItem(captures', storageOk)
           ELSE UNCHANGED <<captures, saves, stored, writeFailures>>
        /\ UNCHANGED <<program, capPc, track, frame, recorder, uploadPending,
                       alerted, escaped>>
        /\ IF ok /\ c = "auto"
           THEN /\ \E enabled \in BOOLEAN :
                     IF enabled /\ hasAnalyzer
                     THEN /\ analyzeTimers < MaxAnalyzeTimers
                          /\ analyzeTimers' = analyzeTimers + 1
                     ELSE UNCHANGED analyzeTimers
                /\ IF currentAutoCaptureCount >= autoCaptureCount
                   THEN StopAutoCapture
                   ELSE UNCHANGED <<isAutoCapturing, autoCaptureInterval, intervals,
                                    currentAutoCaptureCount>>
           ELSE /\ IF ok /\ c = "emergency" /\ hasAnalyzer
                   THEN /\ analyzeTimers < MaxAnalyzeTimers
                        /\ analyzeTimers' = analyzeTimers + 1
                   ELSE UNCHANGED analyzeTimers
                /\ UNCHANGED <<isAutoCapturing, autoCaptureInterval, intervals,
                               currentAutoCaptureCount>>
        /\ IF k \in {"seqScreen", "seqVideo"}
           THEN SeqAdvance(freed, EnsureResolves(ManualCaptureReturn))
           ELSE slots' = freed /\ UNCHANGED sqVars
        /\ UNCHANGED <<hasCaptureApi, autoCaptureCount, restartPending, prefPending,
                       firstLoadPending, strayFire>>
        /\ UNCHANGED <<anVars, rtVars, pageVars>>

(***************************************************************************)
(* A captureScreen call settles.  Without the capture API, with            *)
(* getDisplayMedia rejected, with a stream without video track, with       *)
(* new ImageCapture throwing (the outer .catch), with grabFrame rejected   *)
(* or displayCapture throwing (the inner .catch) the promise is resolved   *)
(* with a failure; else the frame is displayed, the track stopped and the  *)
(* promise resolved with {success: true}.  The callbacks between           *)
(* getDisplayMedia and grabFrame change no state of the manager.           *)
(***************************************************************************)
CaptureScreenSettles ==
    \E k \in CallKinds :
      /\ slots[k] > 0
      /\ \E out \in Outcomes : CaptureSettled(k, out = "frame")

(***************************************************************************)
(*        waitForLivePreview (main.js 502-527): polling and timeout        *)
(***************************************************************************)

(***************************************************************************)
(* A promise keeps the first settlement: resolve and reject are without    *)
(* effect on a promise that is no longer pending.                          *)
(***************************************************************************)
PromiseSettle_Overwrite(state, how) == how

PromiseSettle(state, how) == IF state = "pending" THEN how ELSE state

InitWl(visible) ==
    /\ previewVisible = visible
    /\ wlPc = "idle"
    /\ wlClock = 0
    /\ wlPollDue = -1
    /\ wlTimeoutDue = -1
    /\ wlSettles = 0
    /\ wlSettledAt = -1
    /\ wlFirstSeen = -1

IdleWl == InitWl(FALSE)


(***************************************************************************)
(* resolve() or reject() of the promise at the present time.               *)
(***************************************************************************)
WlSettle(from, how) ==
    /\ wlPc' = PromiseSettle(from, how)
    /\ wlSettles' = IF wlPc' # from THEN wlSettles + 1 ELSE wlSettles
    /\ wlSettledAt' = IF wlPc' # from THEN wlClock ELSE wlSettledAt

(***************************************************************************)
(* checkPreview (lines 504-519): a visible preview resolves the promise    *)
(* and sets no timer; otherwise the next check is set PollMs later.        *)
(***************************************************************************)
CheckPreview(from) ==
    IF previewVisible
    THEN /\ WlSettle(from, "resolved")
         /\ wlFirstSeen' = IF wlFirstSeen = -1 THEN wlClock ELSE wlFirstSeen
         /\ wlPollDue' = -1
    ELSE /\ wlPollDue' = wlClock + PollMs
         /\ wlPc' = from
         /\ UNCHANGED <<wlSettles, wlSettledAt, wlFirstSeen>>

(***************************************************************************)
(* A timer is due when its time has come; of two timers due at the same    *)
(* time the one set first runs first, and the timeout is set at the call.  *)
(***************************************************************************)
TimeoutDue == wlTimeoutDue # -1 /\ wlClock >= wlTimeoutDue

PollDue == wlPollDue # -1 /\ wlClock >= wlPollDue /\ ~TimeoutDue

(***************************************************************************)
(* The call (lines 502-526): the executor sets the timeout, then runs the  *)
(* first check at once.                                                    *)
(***************************************************************************)
WaitForLivePreviewCall ==
    /\ wlPc = "idle"
    /\ wlTimeoutDue' = wlClock + PreviewTimeoutMs
    /\ CheckPreview("pending")
    /\ UNCHANGED <<previewVisible, wlClock>>
    /\ UNCHANGED notWl

PollFires ==
    /\ PollDue
    /\ CheckPreview(wlPc)
    /\ UNCHANGED <<previewVisible, wlClock, wlTimeoutDue>>
    /\ UNCHANGED notWl

(***************************************************************************)
(* The timeout (lines 522-524) rejects; it leaves the polling timer alone. *)
(***************************************************************************)
PreviewTimeoutFires ==
    /\ TimeoutDue
    /\ WlSettle(wlPc, "rejected")
    /\ wlTimeoutDue' = -1
    /\ UNCHANGED <<previewVisible, wlClock, wlPollDue, wlFirstSeen>>
    /\ UNCHANGED notWl

(***************************************************************************)
(* Time passes while no timer is due.                                      *)
(***************************************************************************)
WlTick ==
    /\ wlPc # "idle"
    /\ ~TimeoutDue /\ ~PollDue
    /\ wlClock + PollMs <= MaxWlClock
    /\ wlClock' = wlClock + PollMs
    /\ UNCHANGED <<previewVisible, wlPc, wlPollDue, wlTimeoutDue, wlSettles,
                   wlSettledAt, wlFirstSeen>>
    /\ UNCHANGED notWl

(***************************************************************************)
(* The page shows or hides a preview element: displayCapture and           *)
(* displayVideoPreview of auto-capture.js set style.display.               *)
(***************************************************************************)
PreviewChanges ==
    /\ previewVisible' = ~previewVisible
    /\ UNCHANGED <<wlPc, wlClock, wlPollDue, wlTimeoutDue, wlSettles,
                   wlSettledAt, wlFirstSeen>>
    /\ UNCHANGED notWl

(***************************************************************************)
(*   The capture list and its copy in localStorage (capture-manager.js)    *)
(***************************************************************************)

(***************************************************************************)
(* window.currentCapture as the display functions of auto-capture.js build *)
(* it (lines 468-474, 707-713, 736-742): every field holds a string.       *)
(***************************************************************************)
CaptureRecord(kind) ==
    IF kind = "recording"
    THEN [type |-> "video", subtype |-> "recording", videoUrl |-> "blob:",
          timestamp |-> "iso", filename |-> "recording.webm"]
    ELSE [type |-> "image", subtype |-> "auto", dataUrl |-> "data:image/png",
          timestamp |-> "iso", filename |-> "capture.png"]

(***************************************************************************)
(* { ...a, ...b }: the fields of both, those of b winning.                 *)
(***************************************************************************)
Spread(a, b) ==
    [f \in (DOMAIN a) \cup (DOMAIN b) |-> IF f \in DOMAIN b THEN b[f] ELSE a[f]]

(***************************************************************************)
(* The type of the value of each field of a saved capture: id is           *)
(* Date.now(), a number; savedAt and the fields of the record are strings. *)
(***************************************************************************)
FieldTag(f) == IF f = "id" THEN "number" ELSE "string"

(***************************************************************************)
(* JSON.stringify writes the properties whose value is a string, a number, *)
(* a boolean, null, an array or an object, and omits those whose value is  *)
(* undefined, a function or a symbol.                                      *)
(***************************************************************************)
JsonKeeps_StringsOnly(tag) == tag = "string"

JsonKeeps(tag) == tag \in {"string", "number", "boolean", "null", "array", "object"}

JsonStringifyEntry(e) ==
    [f \in {g \in DOMAIN e : JsonKeeps(FieldTag(g))} |-> e[f]]

JsonStringify(list) == [i \in 1..Len(list) |-> JsonStringifyEntry(list[i])]

(***************************************************************************)
(* JSON.parse of a text written by JSON.stringify: the properties written. *)
(***************************************************************************)
JsonParse(text) == text

NoItem == [present |-> FALSE, text |-> <<>>]

InitSt ==
    /\ stCaptures = <<>>
    /\ stStored = NoItem
    /\ stCurrent = <<>>
    /\ stClock = 1
    /\ stSynced = FALSE
    /\ stFailures = 0
    /\ stLastOp = "none"
    /\ stBeforeLoad = <<>>

(***************************************************************************)
(* saveCaptures (lines 85-93): one setItem of the whole list; a write that *)
(* throws is caught and leaves the item as it was.                         *)
(***************************************************************************)
SaveCaptures(list, ok) ==
    /\ ok \/ stFailures < MaxStoreFailures
    /\ stStored' = IF ok THEN [present |-> TRUE, text |-> JsonStringify(list)]
                   ELSE stStored
    /\ stSynced' = ok
    /\ stFailures' = IF ok THEN stFailures ELSE stFailures + 1

(***************************************************************************)
(* displayCapture / displayRecordedVideo set window.currentCapture.        *)
(***************************************************************************)
StDisplayCapture ==
    /\ \E kind \in {"image", "recording"} : stCurrent' = <<CaptureRecord(kind)>>
    /\ stLastOp' = "display"
    /\ stBeforeLoad' = <<>>
    /\ UNCHANGED <<stCaptures, stStored, stClock, stSynced, stFailures>>
    /\ UNCHANGED notSt

(***************************************************************************)
(* loadCaptureToPreview (lines 235-243): an entry of the list becomes      *)
(* window.currentCapture.                                                  *)
(***************************************************************************)
StLoadCaptureToPreview ==
    /\ \E i \in 1..Len(stCaptures) : stCurrent' = <<stCaptures[i]>>
    /\ stLastOp' = "preview"
    /\ stBeforeLoad' = <<>>
    /\ UNCHANGED <<stCaptures, stStored, stClock, stSynced, stFailures>>
    /\ UNCHANGED notSt

(***************************************************************************)
(* saveCurrentCapture (lines 95-133).  Date.now() is the present time or a *)
(* later one, so that two saves may get the same id.                       *)
(***************************************************************************)
StSaveCurrentCapture ==
    /\ stCurrent # <<>>
    /\ Len(stCaptures) < MaxStoreSaves
    /\ \E now \in {stClock, stClock + 1}, storageOk \in BOOLEAN :
         /\ now <= MaxStoreSaves
         /\ stClock' = now
         /\ stCaptures' = SaveCurrentCaptureList(stCaptures,
                              Spread(stCurrent[1], [id |-> now, savedAt |-> "iso"]),
                              maxCaptures)
         /\ SaveCaptures(stCaptures', storageOk)
    /\ stLastOp' = "save"
    /\ stBeforeLoad' = <<>>
    /\ UNCHANGED stCurrent
    /\ UNCHANGED notSt

(***************************************************************************)
(* deleteCapture (lines 303-325) from the delete button of an entry of the *)
(* gallery: findIndex gives the first entry with that id.                  *)
(***************************************************************************)
FindIndex(list, id) == CHOOSE i \in 1..Len(list) :
    list[i].id = id /\ \A j \in 1..(i - 1) : list[j].id # id

Splice1(list, i) == SubSeq(list, 1, i - 1) \o SubSeq(list, i + 1, Len(list))

StDeleteCapture ==
    /\ \E k \in 1..Len(stCaptures), storageOk \in BOOLEAN :
         /\ stCaptures' = Splice1(stCaptures, FindIndex(stCaptures, stCaptures[k].id))
         /\ SaveCaptures(stCaptures', storageOk)
    /\ stLastOp' = "delete"
    /\ stBeforeLoad' = <<>>
    /\ UNCHANGED <<stCurrent, stClock>>
    /\ UNCHANGED notSt

(***************************************************************************)
(* clearAllCaptures (lines 327-339), confirmed by the user.                *)
(***************************************************************************)
StClearAllCaptures ==
    /\ stCaptures' = <<>>
    /\ \E storageOk \in BOOLEAN : SaveCaptures(stCaptures', storageOk)
    /\ stLastOp' = "clear"
    /\ stBeforeLoad' = <<>>
    /\ UNCHANGED <<stCurrent, stClock>>
    /\ UNCHANGED notSt

(***************************************************************************)
(* The page is loaded again: a new CaptureManager starts with an empty     *)
(* list and loadCaptures (lines 69-83) parses the item if there is one.    *)
(***************************************************************************)
StReload ==
    /\ stLastOp # "load"
    /\ stBeforeLoad' = stCaptures
    /\ stCaptures' = IF stStored.present THEN JsonParse(stStored.text) ELSE <<>>
    /\ stCurrent' = <<>>
    /\ stLastOp' = "load"
    /\ UNCHANGED <<stStored, stClock, stSynced, stFailures>>
    /\ UNCHANGED notSt


(***************************************************************************)
(*  The countdown and performSequentialActions (auto-capture.js 749-866)   *)
(***************************************************************************)

Handles(live) == {t.h : t \in live}

NoCallback == <<"none">>

(***************************************************************************)
(* Mutant of the test of line 769: the countdown ends below zero.          *)
(***************************************************************************)
ReachedZero_Below(n) == n < 0

(***************************************************************************)
(* if (this.currentCountdown <= 0) (line 769).                             *)
(***************************************************************************)
ReachedZero(n) == n <= 0

(***************************************************************************)
(* this.currentCountdown-- (line 766), followed down to -MaxBelowZero:     *)
(* from there on the value stands for "-MaxBelowZero or less", which the   *)
(* test of line 769 does not tell from the exact value.                    *)
(***************************************************************************)
Decrement(n) == IF n > -MaxBelowZero THEN n - 1 ELSE n

(***************************************************************************)
(* Mutant of the test of line 846: no countdown between the actions.       *)
(***************************************************************************)
NeedsCountdown_Never(i) == FALSE

(***************************************************************************)
(* if (i > 0) (line 846), i counting the actions from 0.                   *)
(***************************************************************************)
NeedsCountdown(i) == i > 0

InitCd ==
    /\ cdLive = {}
    /\ countdownInterval = 0
    /\ currentCountdown = 0
    /\ isCountdownActive = FALSE
    /\ isPaused = FALSE
    /\ cdCalls = 0
    /\ cbInvoked = {}
    /\ cbRepeated = {}
    /\ cdTicked = {}
    /\ cdDecs = 0
    /\ cdEvent = "none"
    /\ runPc = [r \in 1..MaxRuns |-> "idle"]
    /\ runIdx = [r \in 1..MaxRuns |-> 0]
    /\ runLen = [r \in 1..MaxRuns |-> 0]
    /\ runLog = [r \in 1..MaxRuns |-> <<>>]

(***************************************************************************)
(* startCountdown(seconds, cb) (lines 749-776): the fields are set and a   *)
(* new 1 s interval is registered; an interval registered before is left   *)
(* as it is.  The new timer first fires a second from now.                 *)
(***************************************************************************)
StartCountdown(live, seconds, cb) ==
    LET h == SetInterval(Handles(live))
    IN  /\ currentCountdown' = seconds
        /\ isCountdownActive' = TRUE
        /\ isPaused' = FALSE
        /\ cdLive' = live \cup {[h |-> h, cb |-> cb]}
        /\ countdownInterval' = h
        /\ cdTicked' = (cdTicked \cap Handles(live)) \cup {h}

(***************************************************************************)
(* The timers left by stopCountdown (lines 806-816): nothing changes       *)
(* unless a countdown is active; the interval whose handle is stored is    *)
(* cleared.                                                                *)
(***************************************************************************)
LiveAfterStop(live) ==
    IF isCountdownActive /\ countdownInterval # 0
    THEN {t \in live : t.h # countdownInterval}
    ELSE live

(***************************************************************************)
(* startCountdown called from outside while no countdown is active.        *)
(***************************************************************************)
StartCountdownIdle ==
    /\ ~isCountdownActive
    /\ cdCalls < MaxCdCalls
    /\ cdCalls' = cdCalls + 1
    /\ \E n \in 1..MaxSeconds : StartCountdown(cdLive, n, <<"call", cdCalls + 1>>)
    /\ cdEvent' = "start"
    /\ UNCHANGED <<cbInvoked, cbRepeated, cdDecs, runPc, runIdx, runLen, runLog>>
    /\ UNCHANGED notCd

(***************************************************************************)
(* startCountdown called from outside while a countdown is active.         *)
(***************************************************************************)
StartCountdownAgain ==
    /\ isCountdownActive
    /\ cdCalls < MaxCdCalls
    /\ cdCalls' = cdCalls + 1
    /\ \E n \in 1..MaxSeconds : StartCountdown(cdLive, n, <<"call", cdCalls + 1>>)
    /\ cdEvent' = "start"
    /\ UNCHANGED <<cbInvoked, cbRepeated, cdDecs, runPc, runIdx, runLen, runLog>>
    /\ UNCHANGED notCd

(***************************************************************************)
(* The Pause, Resume and Stop buttons of the countdown (lines 85-104,      *)
(* 778-831).                                                               *)
(***************************************************************************)
PauseCountdown ==
    /\ isPaused' = (IF isCountdownActive THEN TRUE ELSE isPaused)
    /\ cdEvent' = "pause"
    /\ UNCHANGED <<cdLive, countdownInterval, currentCountdown, isCountdownActive,
                   cdCalls, cbInvoked, cbRepeated, cdTicked, cdDecs,
                   runPc, runIdx, runLen, runLog>>
    /\ UNCHANGED notCd

ResumeCountdown ==
    /\ isPaused' = (IF isCountdownActive THEN FALSE ELSE isPaused)
    /\ cdEvent' = "resume"
    /\ UNCHANGED <<cdLive, countdownInterval, currentCountdown, isCountdownActive,
                   cdCalls, cbInvoked, cbRepeated, cdTicked, cdDecs,
                   runPc, runIdx, runLen, runLog>>
    /\ UNCHANGED notCd

StopCountdownClick ==
    /\ cdLive' = LiveAfterStop(cdLive)
    /\ cdTicked' = cdTicked \cap Handles(cdLive')
    /\ countdownInterval' = (IF isCountdownActive THEN 0 ELSE countdownInterval)
    /\ isPaused' = (IF isCountdownActive THEN FALSE ELSE isPaused)
    /\ isCountdownActive' = FALSE
    /\ cdEvent' = "stop"
    /\ UNCHANGED <<currentCountdown, cdCalls, cbInvoked, cbRepeated, cdDecs,
                   runPc, runIdx, runLen, runLog>>
    /\ UNCHANGED notCd

(***************************************************************************)
(* The loop of performSequentialActions with i actions behind it (lines    *)
(* 842-865): past the list, completion is announced; else a countdown is   *)
(* started and awaited (not before the first action), or the action is     *)
(* executed at once.                                                       *)
(***************************************************************************)
LoopAt(r, i, len, log) ==
    IF i >= len
    THEN /\ runPc' = [runPc EXCEPT ![r] = "done"]
         /\ runIdx' = [runIdx EXCEPT ![r] = i]
         /\ runLog' = [runLog EXCEPT ![r] = Append(log, <<"completed">>)]
         /\ UNCHANGED <<cdLive, cdTicked, currentCountdown, countdownInterval,
                        isCountdownActive, isPaused>>
    ELSE IF NeedsCountdown(i)
    THEN /\ runPc' = [runPc EXCEPT ![r] = "countdown"]
         /\ runIdx' = [runIdx EXCEPT ![r] = i]
         /\ runLog' = [runLog EXCEPT ![r] = Append(log, <<"countdown", i + 1>>)]
         /\ StartCountdown(cdLive, CountdownSeconds, <<"run", r, i + 1>>)
    ELSE /\ runPc' = [runPc EXCEPT ![r] = "action"]
         /\ runIdx' = [runIdx EXCEPT ![r] = i + 1]
         /\ runLog' = [runLog EXCEPT ![r] = Append(log, <<"start", i + 1>>)]
         /\ UNCHANGED <<cdLive, cdTicked, currentCountdown, countdownInterval,
                        isCountdownActive, isPaused>>

(***************************************************************************)
(* performSequentialActions(actions) is called with a list of len actions. *)
(***************************************************************************)
CallRun(r) ==
    /\ runPc[r] = "idle"
    /\ \A q \in 1..(r - 1) : runPc[q] # "idle"
    /\ \E len \in 0..MaxActions :
         /\ runLen' = [runLen EXCEPT ![r] = len]
         /\ LoopAt(r, 0, len, <<>>)
    /\ cdEvent' = "call"
    /\ UNCHANGED <<cdCalls, cbInvoked, cbRepeated, cdDecs>>
    /\ UNCHANGED notCd

PerformSequentialActionsCall == \E r \in 1..MaxRuns : CallRun(r)

(***************************************************************************)
(* The same, called only while no other call is in progress.               *)
(***************************************************************************)
PerformSequentialActionsAlone ==
    /\ \A q \in 1..MaxRuns : runPc[q] \in {"idle", "done"}
    /\ \E r \in 1..MaxRuns : CallRun(r)

(***************************************************************************)
(* Mutant of the try/catch of lines 855-861: an action that throws ends    *)
(* the call.                                                               *)
(***************************************************************************)
ContinuesAfter_OnlyOk(ok) == ok

(***************************************************************************)
(* await action.execute() stands in a try block whose catch announces the  *)
(* failure (lines 855-861): the loop goes on after either outcome.         *)
(***************************************************************************)
ContinuesAfter(ok) == TRUE

(***************************************************************************)
(* action.execute() settles (lines 855-861): resolved or rejected, the     *)
(* result is announced and the loop goes on.                               *)
(***************************************************************************)
ActionSettles ==
    /\ \E r \in 1..MaxRuns, ok \in BOOLEAN :
         /\ runPc[r] = "action"
         /\ IF ContinuesAfter(ok)
            THEN LoopAt(r, runIdx[r], runLen[r],
                        Append(runLog[r], <<"settled", runIdx[r]>>))
            ELSE /\ runPc' = [runPc EXCEPT ![r] = "rejected"]
                 /\ runLog' = [runLog EXCEPT ![r] = Append(@, <<"threw", runIdx[r]>>)]
                 /\ UNCHANGED <<runIdx, cdLive, cdTicked, currentCountdown,
                                countdownInterval, isCountdownActive, isPaused>>
    /\ cdEvent' = "settle"
    /\ UNCHANGED <<cdCalls, cbInvoked, cbRepeated, cdDecs, runLen>>
    /\ UNCHANGED notCd

(***************************************************************************)
(* The promise a callback resolves is pending: the call r of               *)
(* performSequentialActions is waiting for the countdown before action k.  *)
(***************************************************************************)
Awaited(cb) ==
    /\ cb[1] = "run"
    /\ runPc[cb[2]] = "countdown"
    /\ runIdx[cb[2]] + 1 = cb[3]

(***************************************************************************)
(* A countdown timer fires (lines 763-773): nothing while paused; else the *)
(* counter is decremented and, at zero, stopCountdown() and the callback   *)
(* of this timer are called.  A callback of performSequentialActions       *)
(* resolves its promise, and the loop goes on with action.execute().       *)
(***************************************************************************)
CountdownTick ==
    /\ \E t \in cdLive :
         /\ t.h \notin cdTicked
         /\ IF isPaused
            THEN /\ cdTicked' = cdTicked \cup {t.h}
                 /\ UNCHANGED <<cdLive, countdownInterval, currentCountdown,
                                isCountdownActive, isPaused, cbInvoked, cbRepeated,
                                cdDecs, runPc, runIdx, runLog>>
            ELSE /\ currentCountdown' = Decrement(currentCountdown)
                 /\ cdDecs' = (IF cdDecs < 2 THEN cdDecs + 1 ELSE cdDecs)
                 /\ IF ReachedZero(currentCountdown')
                    THEN /\ cdLive' = LiveAfterStop(cdLive)
                         /\ cdTicked' = (cdTicked \cup {t.h}) \cap Handles(cdLive')
                         /\ countdownInterval' =
                              (IF isCountdownActive THEN 0 ELSE countdownInterval)
                         /\ isCountdownActive' = FALSE
                         /\ isPaused' = FALSE
                         /\ cbInvoked' = cbInvoked \cup {t.cb}
                         /\ cbRepeated' = (IF t.cb \in cbInvoked
                                           THEN cbRepeated \cup {t.cb} ELSE cbRepeated)
                         /\ IF Awaited(t.cb)
                            THEN /\ runPc' = [runPc EXCEPT ![t.cb[2]] = "action"]
                                 /\ runIdx' = [runIdx EXCEPT ![t.cb[2]] = t.cb[3]]
                                 /\ runLog' = [runLog EXCEPT ![t.cb[2]] =
                                      @ \o <<<<"zero", currentCountdown'>>,
                                             <<"start", t.cb[3]>>>>]
                            ELSE UNCHANGED <<runPc, runIdx, runLog>>
                    ELSE /\ cdTicked' = cdTicked \cup {t.h}
                         /\ UNCHANGED <<cdLive, countdownInterval, isCountdownActive,
                                        isPaused, cbInvoked, cbRepeated,
                                        runPc, runIdx, runLog>>
    /\ cdEvent' = "tick"
    /\ UNCHANGED <<cdCalls, runLen>>
    /\ UNCHANGED notCd

(***************************************************************************)
(* A second has passed: every live timer has fired once in it.             *)
(***************************************************************************)
SecondPasses ==
    /\ cdLive # {}
    /\ Handles(cdLive) \subseteq cdTicked
    /\ cdTicked' = {}
    /\ cdDecs' = 0
    /\ cdEvent' = "second"
    /\ UNCHANGED <<cdLive, countdownInterval, currentCountdown, isCountdownActive,
                   isPaused, cdCalls, cbInvoked, cbRepeated, runPc, runIdx, runLen,
                   runLog>>
    /\ UNCHANGED notCd

(***************************************************************************)
(* AccessibilityManager: the announcement queue (src/unnamed/part_005,     *)
(* two classes of that name, lines 6-390 and 392-701).  An announcement is *)
(* <<id, priority>>, id numbering the calls of announce; an utterance in   *)
(* the browser's queue is <<"ann", id>>, or <<"other", 0>> when another    *)
(* script of the page speaks (ai-analyzer.js 432).                         *)
(***************************************************************************)

Priorities == {"low", "medium", "high"}

Rank(p) == CASE p = "high" -> 3 [] p = "medium" -> 2 [] OTHER -> 1

OtherUtterance == <<"other", 0>>

OwnUtterances(engine) ==
    {engine[k][2] : k \in {n \in 1..Len(engine) : engine[n][1] = "ann"}}

(***************************************************************************)
(* Mutant of the push of line 142: an announcement goes before the queued  *)
(* ones of lower priority.                                                 *)
(***************************************************************************)
Enqueue_ByPriority(q, a) ==
    LET ahead == {k \in 1..Len(q) : Rank(q[k][2]) >= Rank(a[2])}
        n == Cardinality(ahead)
    IN  [k \in 1..(Len(q) + 1) |->
           IF k <= n THEN q[k] ELSE IF k = n + 1 THEN a ELSE q[k - 1]]

(***************************************************************************)
(* this.announcementQueue.push(announcement) (lines 142, 520).             *)
(***************************************************************************)
Enqueue(q, a) == Append(q, a)

InitAq ==
    /\ aqCopy \in {1, 2}
    /\ hasSpeech \in BOOLEAN
    /\ hasUserActivated = FALSE
    /\ announcementQueue = <<>>
    /\ isAnnouncing = FALSE
    /\ aqEngine = <<>>
    /\ aqEvents = {}
    /\ aqTimers = 0
    /\ aqCalled = <<>>
    /\ aqTaken = <<>>
    /\ aqInProgress = {}
    /\ aqDisplayed = {}
    /\ aqThrew = FALSE

IdleAq == InitAq /\ aqCopy = 1 /\ hasSpeech

(***************************************************************************)
(* speechSynthesis.cancel(): every utterance leaves the browser's queue;   *)
(* the handlers of the removed ones run later.                             *)
(***************************************************************************)
CancelEvents(engine, events) == events \cup OwnUtterances(engine)

(***************************************************************************)
(* speakAnnouncement (lines 155-197 and 533-566) from the browser queue    *)
(* engine and the pending events given: without speechSynthesis the        *)
(* message is displayed only; else isAnnouncing is set and the utterance   *)
(* is handed to the browser, in the first class only after a user          *)
(* activation and after cancelling whatever is being spoken.  thrown:      *)
(* speak() throws.                                                         *)
(***************************************************************************)
SpeakAnnouncement(a, engine, events, thrown) ==
    IF ~hasSpeech
    THEN /\ isAnnouncing' = isAnnouncing
         /\ aqEngine' = engine
         /\ aqEvents' = events
         /\ aqInProgress' = aqInProgress
         /\ aqDisplayed' = aqDisplayed \cup {a[1]}
         /\ aqThrew' = aqThrew
    ELSE /\ isAnnouncing' = TRUE
         /\ aqInProgress' = aqInProgress \cup {a[1]}
         /\ IF aqCopy = 1
            THEN /\ aqDisplayed' = aqDisplayed \cup {a[1]}
                 /\ IF hasUserActivated
                    THEN /\ aqEvents' = CancelEvents(engine, events)
                         /\ aqEngine' = IF thrown THEN <<>> ELSE <<<<"ann", a[1]>>>>
                         /\ aqThrew' = (aqThrew \/ thrown)
                    ELSE /\ aqEvents' = events
                         /\ aqEngine' = engine
                         /\ aqThrew' = aqThrew
            ELSE /\ aqEvents' = events
                 /\ aqEngine' = IF thrown THEN engine
                                ELSE Append(engine, <<"ann", a[1]>>)
                 /\ aqDisplayed' = IF thrown THEN aqDisplayed
                                   ELSE aqDisplayed \cup {a[1]}
                 /\ aqThrew' = (aqThrew \/ thrown)

(***************************************************************************)
(* processAnnouncementQueue (lines 146-153, 524-531) on the queue q.       *)
(***************************************************************************)
ProcessAnnouncementQueue(q, engine, events, thrown) ==
    IF isAnnouncing \/ Len(q) = 0
    THEN /\ announcementQueue' = q
         /\ aqEngine' = engine
         /\ aqEvents' = events
         /\ UNCHANGED <<isAnnouncing, aqTaken, aqInProgress, aqDisplayed, aqThrew>>
    ELSE /\ announcementQueue' = Tail(q)
         /\ aqTaken' = Append(aqTaken, Head(q))
         /\ SpeakAnnouncement(Head(q), engine, events, thrown)

(***************************************************************************)
(* announce(message, priority) (lines 135-144, 513-522).                   *)
(***************************************************************************)
AnnounceFrom(priority, engine, events, thrown) ==
    LET a == <<Len(aqCalled) + 1, priority>>
    IN  /\ aqCalled' = Append(aqCalled, a)
        /\ ProcessAnnouncementQueue(Enqueue(announcementQueue, a), engine, events, thrown)

Announce ==
    /\ Len(aqCalled) < MaxAnnouncements
    /\ \E priority \in Priorities, thrown \in BOOLEAN :
         AnnounceFrom(priority, aqEngine, aqEvents, thrown)
    /\ UNCHANGED <<aqCopy, hasSpeech, hasUserActivated, aqTimers>>
    /\ UNCHANGED notAq

(***************************************************************************)
(* utterance.onend / utterance.onerror (lines 174-183, 550-559) for the    *)
(* utterance being spoken or for a cancelled one.                          *)
(***************************************************************************)
UtteranceSettles ==
    \E how \in {"end", "error"} :
    /\ \/ /\ aqEngine # <<>>
          /\ Head(aqEngine)[1] = "ann"
          /\ aqEngine' = Tail(aqEngine)
          /\ aqInProgress' = aqInProgress \ {Head(aqEngine)[2]}
          /\ aqDisplayed' =
               IF aqCopy = 2 /\ how = "error"
               THEN aqDisplayed \cup {Head(aqEngine)[2]} ELSE aqDisplayed
          /\ UNCHANGED aqEvents
       \/ \E id \in aqEvents :
            /\ aqEvents' = aqEvents \ {id}
            /\ aqInProgress' = aqInProgress \ {id}
            /\ aqDisplayed' =
                 IF aqCopy = 2 /\ how = "error"
                 THEN aqDisplayed \cup {id} ELSE aqDisplayed
            /\ UNCHANGED aqEngine
    /\ isAnnouncing' = FALSE
    /\ aqTimers' = aqTimers + 1
    /\ UNCHANGED <<aqCopy, hasSpeech, hasUserActivated, announcementQueue,
                   aqCalled, aqTaken, aqThrew>>
    /\ UNCHANGED notAq

(***************************************************************************)
(* setTimeout(() => this.processAnnouncementQueue(), 100) fires.           *)
(***************************************************************************)
ProcessTimerFires ==
    /\ aqTimers > 0
    /\ aqTimers' = aqTimers - 1
    /\ \E thrown \in BOOLEAN :
         ProcessAnnouncementQueue(announcementQueue, aqEngine, aqEvents, thrown)
    /\ UNCHANGED <<aqCopy, hasSpeech, hasUserActivated, aqCalled>>
    /\ UNCHANGED notAq

(***************************************************************************)
(* The first click, keydown or touchstart (trackUserActivation, lines      *)
(* 352-360, first class only).                                             *)
(***************************************************************************)
UserActivates ==
    /\ aqCopy = 1
    /\ ~hasUserActivated
    /\ hasUserActivated' = TRUE
    /\ UNCHANGED <<aqCopy, hasSpeech, announcementQueue, isAnnouncing, aqEngine,
                   aqEvents, aqTimers, aqCalled, aqTaken, aqInProgress,
                   aqDisplayed, aqThrew>>
    /\ UNCHANGED notAq

(***************************************************************************)
(* handleEscape (lines 276-288, 620-632): the current speech is cancelled; *)
(* when the AI conversation was open it is closed and that is announced.   *)
(***************************************************************************)
HandleEscape ==
    /\ \E open \in BOOLEAN, thrown \in BOOLEAN :
         LET engine == IF hasSpeech THEN <<>> ELSE aqEngine
             events == IF hasSpeech THEN CancelEvents(aqEngine, aqEvents) ELSE aqEvents
         IN  IF open /\ Len(aqCalled) < MaxAnnouncements
             THEN AnnounceFrom("medium", engine, events, thrown)
             ELSE /\ aqEngine' = engine
                  /\ aqEvents' = events
                  /\ UNCHANGED <<announcementQueue, isAnnouncing, aqCalled, aqTaken,
                                 aqInProgress, aqDisplayed, aqThrew>>
    /\ UNCHANGED <<aqCopy, hasSpeech, hasUserActivated, aqTimers>>
    /\ UNCHANGED notAq

(***************************************************************************)
(* Another script speaks through the same speechSynthesis                  *)
(* (ai-analyzer.js 432), and its utterance ends.                           *)
(***************************************************************************)
OtherSpeaks ==
    /\ hasSpeech
    /\ \A k \in 1..Len(aqEngine) : aqEngine[k] # OtherUtterance
    /\ aqEngine' = Append(aqEngine, OtherUtterance)
    /\ UNCHANGED <<aqCopy, hasSpeech, hasUserActivated, announcementQueue, isAnnouncing,
                   aqEvents, aqTimers, aqCalled, aqTaken, aqInProgress,
                   aqDisplayed, aqThrew>>
    /\ UNCHANGED notAq

OtherEnds ==
    /\ aqEngine # <<>>
    /\ Head(aqEngine) = OtherUtterance
    /\ aqEngine' = Tail(aqEngine)
    /\ UNCHANGED <<aqCopy, hasSpeech, hasUserActivated, announcementQueue, isAnnouncing,
                   aqEvents, aqTimers, aqCalled, aqTaken, aqInProgress,
                   aqDisplayed, aqThrew>>
    /\ UNCHANGED notAq

(***************************************************************************)
(*        VoiceCommandManager.processCommand (voice-commands.js)           *)
(* A phrase or a transcript is the tuple of its characters.                *)
(***************************************************************************)

(***************************************************************************)
(* this.commands (lines 14-63), in the order Object.entries gives them.    *)
(***************************************************************************)
Commands ==
    << <<<<"c", "a", "p", "t", "u", "r", "e", " ", "s", "c", "r", "e", "e", "n">>,
         "captureScreen">>,
       <<<<"t", "a", "k", "e", " ", "s", "c", "r", "e", "e", "n", "s", "h", "o", "t">>,
         "captureScreen">>,
       <<<<"c", "a", "p", "t", "u", "r", "e">>,
         "captureScreen">>,
       <<<<"s", "t", "a", "r", "t", " ", "r", "e", "c", "o", "r", "d", "i", "n", "g">>,
         "startRecording">>,
       <<<<"b", "e", "g", "i", "n", " ", "r", "e", "c", "o", "r", "d", "i", "n", "g">>,
         "startRecording">>,
       <<<<"r", "e", "c", "o", "r", "d", " ", "s", "c", "r", "e", "e", "n">>,
         "startRecording">>,
       <<<<"s", "t", "o", "p", " ", "r", "e", "c", "o", "r", "d", "i", "n", "g">>,
         "stopRecording">>,
       <<<<"e", "n", "d", " ", "r", "e", "c", "o", "r", "d", "i", "n", "g">>,
         "stopRecording">>,
       <<<<"a", "n", "a", "l", "y", "z", "e", " ", "c", "a", "p", "t", "u", "r", "e">>,
         "analyzeCapture">>,
       <<<<"a", "n", "a", "l", "y", "z", "e">>,
         "analyzeCapture">>,
       <<<<"a", "i", " ", "a", "n", "a", "l", "y", "s", "i", "s">>,
         "analyzeCapture">>,
       <<<<"r", "e", "a", "d", " ", "d", "e", "s", "c", "r", "i", "p", "t", "i", "o", "n">>,
         "readAloud">>,
       <<<<"s", "p", "e", "a", "k", " ", "d", "e", "s", "c", "r", "i", "p", "t", "i", "o", "n">>,
         "readAloud">>,
       <<<<"r", "e", "a", "d", " ", "a", "l", "o", "u", "d">>,
         "readAloud">>,
       <<<<"s", "a", "v", "e", " ", "c", "a", "p", "t", "u", "r", "e">>,
         "saveCapture">>,
       <<<<"s", "a", "v", "e">>,
         "saveCapture">>,
       <<<<"u", "p", "l", "o", "a", "d">>,
         "uploadCloud">>,
       <<<<"u", "p", "l", "o", "a", "d", " ", "c", "a", "p", "t", "u", "r", "e">>,
         "uploadCloud">>,
       <<<<"s", "p", "e", "a", "k", " ", "s", "t", "a", "t", "u", "s">>,
         "speakStatus">>,
       <<<<"s", "y", "s", "t", "e", "m", " ", "s", "t", "a", "t", "u", "s">>,
         "speakStatus">>,
       <<<<"s", "t", "a", "t", "u", "s">>,
         "speakStatus">>,
       <<<<"w", "h", "a", "t", "'", "s", " ", "m", "y", " ", "s", "t", "a", "t", "u", "s">>,
         "speakStatus">>,
       <<<<"c", "l", "e", "a", "r", " ", "a", "l", "l">>,
         "clearAllCaptures">>,
       <<<<"d", "e", "l", "e", "t", "e", " ", "a", "l", "l">>,
         "clearAllCaptures">>,
       <<<<"c", "l", "e", "a", "r", " ", "c", "a", "p", "t", "u", "r", "e", "s">>,
         "clearAllCaptures">>,
       <<<<"e", "x", "p", "o", "r", "t", " ", "a", "l", "l">>,
         "exportAll">>,
       <<<<"d", "o", "w", "n", "l", "o", "a", "d", " ", "a", "l", "l">>,
         "exportAll">>,
       <<<<"h", "e", "l", "p">>,
         "showHelp">>,
       <<<<"c", "o", "m", "m", "a", "n", "d", "s">>,
         "showHelp">>,
       <<<<"w", "h", "a", "t", " ", "c", "a", "n", " ", "y", "o", "u", " ", "d", "o">>,
         "showHelp">>,
       <<<<"a", "s", "k", " ", "q", "u", "e", "s", "t", "i", "o", "n">>,
         "askQuestion">>,
       <<<<"t", "a", "l", "k", " ", "t", "o", " ", "a", "i">>,
         "askQuestion">>,
       <<<<"a", "i", " ", "c", "h", "a", "t">>,
         "askQuestion">> >>

Min3(a, b, c) == Min(a, Min(b, c))

(***************************************************************************)
(* levenshteinDistance(str1, str2) (lines 265-291): the matrix has a row   *)
(* per character of str2 and a column per character of str1.  LevRow fills *)
(* row i from column j on, acc holding its columns 0..j-1 and prev row     *)
(* i-1; LevRows goes down the rows and returns matrix[str2.length]         *)
(* [str1.length].                                                          *)
(***************************************************************************)
RECURSIVE LevRow(_, _, _, _, _)
LevRow(prev, str1, ch, j, acc) ==
    IF j > Len(str1) THEN acc
    ELSE LET cell == IF ch = str1[j]
                     THEN prev[j]
                     ELSE Min3(prev[j] + 1, acc[j] + 1, prev[j + 1] + 1)
             row == Append(acc, cell)
         IN  IF Len(row) = j + 1 THEN LevRow(prev, str1, ch, j + 1, row) ELSE row

RECURSIVE LevRows(_, _, _, _)
LevRows(prev, str1, str2, i) ==
    IF i > Len(str2) THEN prev[Len(str1) + 1]
    ELSE LET row == LevRow(prev, str1, str2[i], 1, <<i>>)
         IN  IF Len(row) = Len(prev) THEN LevRows(row, str1, str2, i + 1) ELSE 0

LevenshteinDistance(str1, str2) ==
    LevRows([j \in 1..(Len(str1) + 1) |-> j - 1], str1, str2, 1)

(***************************************************************************)
(* calculateSimilarity (lines 254-263): (longer.length - distance) /       *)
(* longer.length, kept as the pair <<numerator, denominator>>.  The        *)
(* quotients of two such pairs of small integers compare as doubles the    *)
(* way the fractions compare, and 4/5 is the double 0.8.                   *)
(***************************************************************************)
CalculateSimilarity(text1, text2) ==
    LET longer == IF Len(text1) > Len(text2) THEN text1 ELSE text2
        shorter == IF Len(text1) > Len(text2) THEN text2 ELSE text1
    IN  IF Len(longer) = 0 THEN <<1, 1>>
        ELSE <<Len(longer) - LevenshteinDistance(longer, shorter), Len(longer)>>

Greater(a, b) == a[1] * b[2] > b[1] * a[2]

\* the literal 0.8 of line 240
Threshold == <<4, 5>>

\* let confidence = 0 (line 236)
NoConfidence == <<0, 1>>

(***************************************************************************)
(* The loop of processCommand (lines 238-244) from entry k on.             *)
(***************************************************************************)
RECURSIVE SelectFrom(_, _, _, _)
SelectFrom(transcript, k, action, confidence) ==
    IF k > Len(Commands) THEN action
    ELSE LET similarity == CalculateSimilarity(transcript, Commands[k][1])
         IN  IF Greater(similarity, Threshold) /\ Greater(similarity, confidence)
             THEN SelectFrom(transcript, k + 1, Commands[k][2], similarity)
             ELSE SelectFrom(transcript, k + 1, action, confidence)

(***************************************************************************)
(* The methods of the objects executeCommand calls into:                   *)
(* window.captureManager (capture-manager.js 699), window.autoCaptureManager*)
(* (auto-capture.js 891), window.aiAnalyzer, window.accessibilityManager   *)
(* and the VoiceCommandManager itself.                                     *)
(***************************************************************************)
PageMethods(object) ==
    CASE object = "captureManager" ->
           {"init", "setupEventListeners", "loadCaptures", "saveCaptures",
            "saveCurrentCapture", "updateCapturesGallery", "loadCaptureToPreview",
            "downloadCapture", "deleteCapture", "clearAllCaptures",
            "speakCapturesSummary", "downloadAllAsHtml", "handleAIQuestion",
            "askAIAboutCapture", "askAIAboutImage", "askHuggingFaceAboutImage",
            "askOpenAIAboutImage", "addToConversation", "updateLastMessage",
            "updateStats", "updateStorageStats", "updateCaptureCount", "formatBytes",
            "startStorageMonitoring", "getCaptures", "getCurrentCapture"}
      [] object = "autoCaptureManager" ->
           {"init", "setupEventListeners", "loadSettings", "saveSettings",
            "toggleAutoCapture", "startAutoCapture", "stopAutoCapture",
            "performAutoCapture", "emergencyCapture", "captureScreen",
            "displayCapture", "enableActionButtons", "showProcessingStatus",
            "hideProcessingStatus", "toggleAutoAnalysis", "toggleManualCaptureMode",
            "getCaptureHistory", "clearCaptureHistory", "setAutoCaptureDelay",
            "setAutoCaptureCount", "updateAutoCaptureCountUI", "manualScreenCapture",
            "manualVideoCapture", "startVideoRecording", "stopVideoRecording",
            "displayVideoPreview", "displayRecordedVideo", "startCountdown",
            "pauseCountdown", "resumeCountdown", "stopCountdown",
            "updateCountdownDisplay", "performSequentialActions",
            "handleKeyboardShortcut"}
      [] object = "aiAnalyzer" -> {"analyzeWithAI"}
      [] object = "accessibilityManager" ->
           {"announce", "handleReadAloud", "handleSpeakStatus"}
      [] OTHER -> {"showAvailableCommands", "openAIConversation"}

(***************************************************************************)
(* The switch of executeCommand (lines 300-377): the call each case makes, *)
(* <<object, method>>; no case, no call.                                   *)
(***************************************************************************)
NoCase == <<"none", "none">>

CaseOf(action) ==
    CASE action = "captureScreen" -> <<"captureManager", "captureScreen">>
      [] action = "startRecording" -> <<"autoCaptureManager", "toggleVideoRecording">>
      [] action = "stopRecording" -> <<"autoCaptureManager", "toggleVideoRecording">>
      [] action = "analyzeCapture" -> <<"aiAnalyzer", "analyzeWithAI">>
      [] action = "readAloud" -> <<"accessibilityManager", "handleReadAloud">>
      [] action = "saveCapture" -> <<"captureManager", "saveCurrentCapture">>
      [] action = "speakStatus" -> <<"accessibilityManager", "handleSpeakStatus">>
      [] action = "clearAllCaptures" -> <<"captureManager", "clearAllCaptures">>
      [] action = "exportAll" -> <<"captureManager", "downloadAllAsHtml">>
      [] action = "showHelp" -> <<"this", "showAvailableCommands">>
      [] action = "askQuestion" -> <<"this", "openAIConversation">>
      [] OTHER -> NoCase

(***************************************************************************)
(* executeCommand(action) with every manager of the page present:          *)
(* "executed" when the case's method is called, "TypeError" when the       *)
(* object has no such method, "unknownAction" in the default branch,       *)
(* "declined" when the user answers the confirm() of 'clearAllCaptures'    *)
(* with Cancel.                                                            *)
(***************************************************************************)
ExecuteCommand(action, confirmed) ==
    LET c == CaseOf(action)
    IN  IF c = NoCase THEN "unknownAction"
        ELSE IF action = "clearAllCaptures" /\ ~confirmed THEN "declined"
        ELSE IF c[2] \in PageMethods(c[1]) THEN "executed"
        ELSE "TypeError"

NoTranscript == <<"none">>

VcStart ==
    /\ vcTranscript = NoTranscript
    /\ vcAction = "null"
    /\ vcOutcome = "none"
    /\ vcAnnounced = <<>>

IdleVc == VcStart /\ vcSelected = <<>>

IdlePage == IdleWl /\ InitSt /\ InitCd /\ IdleAq /\ IdleVc

(***************************************************************************)
(* What the recognizer may deliver (onRecognitionResult, lines 189-200,    *)
(* lower case and trimmed): a registered phrase, a phrase with one of its  *)
(* first characters dropped or misheard, and a few other utterances.       *)
(***************************************************************************)
DeleteAt(p, i) == SubSeq(p, 1, i - 1) \o SubSeq(p, i + 1, Len(p))

SubstituteAt(p, i, ch) == [p EXCEPT ![i] = ch]

OtherUtterances ==
    { <<>>,
      <<"h", "e", "l", "l", "o">>,
      <<"s", "t", "o", "x", "t", " ", "r", "e", "c", "o", "r", "d", "i", "n", "g">>,
      <<"c", "a", "p", "t", "u", "r", "e", " ", "s", "c", "r", "e", "e", "n", "s">> }

Heard ==
    LET phrases == {Commands[k][1] : k \in 1..Len(Commands)}
    IN  phrases
        \cup {DeleteAt(p, i) : p \in phrases, i \in 1..MaxEditPos}
        \cup {SubstituteAt(p, i, "x") : p \in phrases, i \in 1..MaxEditPos}
        \cup OtherUtterances

(***************************************************************************)
(* No command processed yet; the loop of processCommand (lines 235-244)    *)
(* evaluated for every transcript that may be heard.                       *)
(***************************************************************************)
InitVc ==
    /\ VcStart
    /\ vcSelected = [t \in Heard |-> SelectFrom(t, 1, "null", NoConfidence)]

(***************************************************************************)
(* processCommand(transcript) (lines 233-252) with the executeCommand call *)
(* it makes (lines 293-378).                                               *)
(***************************************************************************)
ProcessCommand ==
    /\ \E transcript \in Heard, confirmed \in BOOLEAN :
         LET action == vcSelected[transcript]
         IN  /\ vcTranscript' = transcript
             /\ vcAction' = action
             /\ IF action # "null"
                THEN LET outcome == ExecuteCommand(action, confirmed)
                     IN  /\ vcOutcome' = outcome
                         /\ vcAnnounced' =
                              IF outcome = "unknownAction"
                              THEN <<"executing", "unknownAction">>
                              ELSE <<"executing">>
                ELSE /\ vcOutcome' = "none"
                     /\ vcAnnounced' = <<"notRecognized">>
    /\ UNCHANGED vcSelected
    /\ UNCHANGED notVc

(***************************************************************************)
(*                            Specifications                               *)
(***************************************************************************)
NextCaptures ==
    \/ CaptureScreenClick
    \/ GetDisplayMediaSettles
    \/ GrabFrameSettles
    \/ StartRecordingClick
    \/ RecordingStreamSettles
    \/ StopRecording
    \/ RecorderOnStop
    \/ CheckQuotaAndCleanup
    \/ CaptureCreated
    \/ SaveCurrentCapture
    \/ ClearAllCaptures
    \/ SaveLocally
    \/ UploadToCloudClick
    \/ UploadSettles

InitCaptures ==
    /\ \E p \in {"app", "accessible", "old"} : InitCap(p)
    /\ IdleAn
    /\ IdleRt
    /\ IdleAc
    /\ InitSq
    /\ IdlePage

SpecCaptures == InitCaptures /\ [][NextCaptures]_vars

NextAnalysis ==
    \/ AnCaptureCreated
    \/ UserAnalyze
    \/ SelectSettles
    \/ PrimarySettles
    \/ FallbackSelectSettles
    \/ FallbackSettles
    \/ RetryCall
    \/ RetryAwaitSettles
    \/ BackoffTick
    \/ BackoffFires

InitAnalysis ==
    /\ \E build \in {"ai-analyzer.js", "part_004"}, hasProviders \in BOOLEAN,
          keys \in ApiKeyChoices :
         InitAn(build, hasProviders, keys)
    /\ \E present \in BOOLEAN, max \in 1..MaxRetriesBound : InitRt(present, max)
    /\ InitCap("accessible")
    /\ IdleAc
    /\ InitSq
    /\ IdlePage

SpecAnalysis == InitAnalysis /\ [][NextAnalysis]_vars

(***************************************************************************)
(* Every pending promise settles, time passes and every due timer fires:   *)
(* the event loop runs a continuation that stays ready.                    *)
(***************************************************************************)
FairSpecAnalysis ==
    /\ SpecAnalysis
    /\ WF_vars(SelectSettles)
    /\ WF_vars(PrimarySettles)
    /\ WF_vars(FallbackSelectSettles)
    /\ WF_vars(FallbackSettles)
    /\ WF_vars(RetryAwaitSettles)
    /\ WF_vars(BackoffTick)
    /\ WF_vars(BackoffFires)

(***************************************************************************)
(* The cap of the capture list of the loaded page.                         *)
(***************************************************************************)
CapOf(p) ==
    CASE p = "app" -> AppMaxCaptures
      [] p = "accessible" -> maxCaptures
      [] p = "old" -> OldMaxCaptures

(***************************************************************************)
(* Auto-capture sessions: the button, the settings, the timers and the     *)
(* captures they start.                                                    *)
(***************************************************************************)
NextAuto ==
    \/ ToggleAutoCapture
    \/ SetAutoCaptureDelay
    \/ SetAutoCaptureCount
    \/ RestartTimerFires
    \/ PreferenceTimerFires
    \/ FirstLoadTimerFires
    \/ IntervalFires
    \/ AnalyzeTimerFires
    \/ CaptureScreenSettles

InitAuto ==
    /\ \E api \in BOOLEAN, count \in 1..MaxAutoCount, pref \in BOOLEAN :
         InitAc(api, count, pref)
    /\ InitSq
    /\ InitCap("accessible")
    /\ IdleAn
    /\ IdleRt
    /\ IdlePage

SpecAuto == InitAuto /\ [][NextAuto]_vars

(***************************************************************************)
(* The callers of captureScreen, each from its trigger.                    *)
(***************************************************************************)
NextCaptureScreen ==
    \/ ToggleAutoCapture
    \/ IntervalFires
    \/ FirstLoadTimerFires
    \/ EmergencyCapture
    \/ ManualScreenCapture
    \/ ManualVideoCapture
    \/ AnalyzeTimerFires
    \/ CaptureScreenSettles

InitCaptureScreen ==
    /\ \E api \in BOOLEAN : InitAc(api, DefaultAutoCount, FALSE)
    /\ InitSq
    /\ InitCap("accessible")
    /\ IdleAn
    /\ IdleRt
    /\ IdlePage

SpecCaptureScreen == InitCaptureScreen /\ [][NextCaptureScreen]_vars

(***************************************************************************)
(* The sequences, with their captures and the manual capture buttons.      *)
(***************************************************************************)
NextSequence ==
    \/ SequenceStep
    \/ ManualScreenCapture
    \/ ManualVideoCapture
    \/ CaptureScreenSettles

InitSequence ==
    /\ \E api \in BOOLEAN : InitAc(api, DefaultAutoCount, FALSE)
    /\ InitSq
    /\ InitCap("accessible")
    /\ IdleAn
    /\ IdleRt
    /\ IdlePage

SpecSequence == InitSequence /\ [][NextSequence]_vars

(***************************************************************************)
(* C1: after any sequence of save operations the capture list never holds  *)
(* more entries than its cap: 50 in app.js and in the accessible           *)
(* CaptureManager, 20 in the old page.                                     *)
(***************************************************************************)
C1_CaptureListCapped == Len(captures) <= CapOf(program)

C1_Witness ==
    /\ program = "app"
    /\ Len(captures) = AppMaxCaptures
    /\ saves > AppMaxCaptures

(***************************************************************************)
(* A step that saves a capture while the list is at its cap.               *)
(***************************************************************************)
SaveAtCap == saves' = saves + 1 /\ Len(captures) = CapOf(program)

NewestFirst(list) == \A i \in 1..(Len(list) - 1) : list[i] > list[i + 1]

(***************************************************************************)
(* C2: a save at the cap drops the entry saved earliest (the last one),    *)
(* puts the new capture first and keeps the others in their order; the     *)
(* list is always ordered newest first.                                    *)
(***************************************************************************)
C2_OldestEvicted ==
    [][/\ NewestFirst(captures')
       /\ SaveAtCap =>
            /\ captures' = <<saves'>> \o SubSeq(captures, 1, Len(captures) - 1)
            /\ \A i \in 1..Len(captures) : captures[Len(captures)] <= captures[i]
            /\ \A i \in 1..Len(captures') : captures'[i] # captures[Len(captures)]
      ]_vars

C2_Witness ==
    /\ program = "accessible"
    /\ Len(captures) = maxCaptures
    /\ saves > maxCaptures
    /\ captures[1] = saves

(***************************************************************************)
(* C3: in app.js, when the stream is granted and the frame is grabbed, the *)
(* list has one more entry than before (below the cap), the entry is the   *)
(* new capture, and the track has been stopped.                            *)
(***************************************************************************)
C3_CaptureAddsEntry ==
    [][(program = "app" /\ capPc = "grabFrame" /\ frame' = "ok"
          /\ Len(captures) < AppMaxCaptures) =>
            /\ Len(captures') = Len(captures) + 1
            /\ captures'[1] = saves'
            /\ saves' = saves + 1
            /\ track' = "stopped"
      ]_vars

(***************************************************************************)
(* C4: performAnalysisWithRetry invokes analyzeWithAI at most maxRetries   *)
(* times, makes no attempt after the first attempt that did not throw, and *)
(* has thrown 'Analysis failed after N attempts' exactly when all N        *)
(* attempts threw.                                                         *)
(***************************************************************************)
AllThrew == \A i \in 1..Len(outcomes) : outcomes[i] = "threw"

C4_RetryBounded ==
    /\ calls <= maxRetries
    /\ attempt <= maxRetries
    /\ Len(outcomes) <= maxRetries
    /\ \A i \in 1..(Len(outcomes) - 1) : outcomes[i] = "threw"
    /\ rPc = "thrown" <=> (Len(outcomes) = maxRetries /\ AllThrew)
    /\ rPc = "returned" <=> (outcomes # <<>> /\ outcomes[Len(outcomes)] = "ok")

C4_Witness ==
    /\ rPc = "thrown"
    /\ hasAnalyzer
    /\ maxRetries = DefaultMaxRetries
    /\ calls = DefaultMaxRetries

(***************************************************************************)
(* C5: a call of performAnalysisWithRetry that has started eventually      *)
(* returns or throws, whatever the attempts do, provided each awaited      *)
(* attempt settles and each backoff timer fires.                           *)
(***************************************************************************)
C5_RetryTerminates == (rPc \in {"awaitAnalyze", "backoff"}) ~> (rPc \in {"returned", "thrown"})

C5_Witness ==
    /\ rPc = "returned"
    /\ maxRetries = DefaultMaxRetries
    /\ outcomes = <<"threw", "threw", "ok">>
    /\ Len(waits) = 2

C7_FallbackAttempt ==
    (anPc = "idle" /\ primaryFailure \in {"noProvider", "requestThrew"}) =>
        /\ fbAttempts <= 1
        /\ fbRequest = "ok" =>
             /\ fbAttempts = 1
             /\ anResult = "value"
             /\ anText = fbProvider
             /\ analysisHistory # <<>>
             /\ Head(analysisHistory) = fbProvider
        /\ fbRequest = "failed" =>
             /\ fbAttempts = 1
             /\ anResult = "throw"
             /\ anError = "fallback"
        /\ fbRequest = "absent" =>
             /\ fbAttempts = 0
             /\ anResult = "throw"
             /\ anError = "primary"

C9_TimerMatchesFlag ==
    /\ isAutoCapturing <=> intervals # {}
    /\ Cardinality(intervals) <= 1
    /\ isAutoCapturing => intervals = {autoCaptureInterval}
    /\ ~isAutoCapturing => autoCaptureInterval = 0
    /\ ~strayFire

C9_Witness ==
    /\ ~isAutoCapturing
    /\ intervals = {}
    /\ restartPending > 0
    /\ slots["auto"] > 0
    /\ lastCall.caller = "auto"
    /\ lastCall.success

NextPreview ==
    \/ WaitForLivePreviewCall
    \/ PollFires
    \/ PreviewTimeoutFires
    \/ WlTick
    \/ PreviewChanges

InitPreview ==
    /\ \E visible \in BOOLEAN : InitWl(visible)
    /\ InitSt
    /\ InitCap("accessible")
    /\ IdleAn
    /\ IdleRt
    /\ IdleAc
    /\ InitSq
    /\ InitCd
    /\ IdleAq
    /\ IdleVc

SpecPreview == InitPreview /\ [][NextPreview]_vars

(***************************************************************************)
(* C11: waitForLivePreview settles exactly once and within 10 s: it        *)
(* resolves at the first check, made at once and then every 500 ms, that   *)
(* finds a preview element visible, and it rejects when the 10 s timer     *)
(* fires without an earlier check having found one.                        *)
(***************************************************************************)
C11_SettlesOnceInTime ==
    /\ wlSettles <= 1
    /\ wlPc = "idle" => wlSettles = 0
    /\ wlPc = "pending" =>
         wlSettles = 0 /\ wlFirstSeen = -1 /\ wlClock <= PreviewTimeoutMs
    /\ wlPc = "resolved" =>
         /\ wlSettles = 1
         /\ wlSettledAt = wlFirstSeen
         /\ wlSettledAt < PreviewTimeoutMs
         /\ wlSettledAt % PollMs = 0
    /\ wlPc = "rejected" =>
         /\ wlSettles = 1
         /\ wlSettledAt = PreviewTimeoutMs
         /\ wlFirstSeen = -1 \/ wlFirstSeen >= PreviewTimeoutMs

C11_Witness ==
    /\ wlPc = "rejected"
    /\ wlSettledAt = PreviewTimeoutMs
    /\ wlFirstSeen > PreviewTimeoutMs

(***************************************************************************)
(* The capture list of the accessible page with its storage.               *)
(***************************************************************************)
NextStorage ==
    \/ StDisplayCapture
    \/ StLoadCaptureToPreview
    \/ StSaveCurrentCapture
    \/ StDeleteCapture
    \/ StClearAllCaptures
    \/ StReload

InitStorage ==
    /\ InitSt
    /\ IdleWl
    /\ InitCap("accessible")
    /\ IdleAn
    /\ IdleRt
    /\ IdleAc
    /\ InitSq
    /\ InitCd
    /\ IdleAq
    /\ IdleVc

SpecStorage == InitStorage /\ [][NextStorage]_vars

NextForward ==
    \/ StDisplayCapture
    \/ StLoadCaptureToPreview
    \/ StSaveCurrentCapture
    \/ UserAnalyze

InitForward ==
    /\ \E build \in {"ai-analyzer.js", "part_004"}, hasProviders \in BOOLEAN,
          keys \in ApiKeyChoices :
         InitAn(build, hasProviders, keys)
    /\ InitSt
    /\ IdleWl
    /\ InitCap("accessible")
    /\ IdleRt
    /\ IdleAc
    /\ InitSq
    /\ InitCd
    /\ IdleAq
    /\ IdleVc

SpecForward == InitForward /\ [][NextForward]_vars

(***************************************************************************)
(* C13: once a capture has been produced by displayCapture or loaded into  *)
(* the preview by loadCaptureToPreview, a call of analyzeWithAI made while *)
(* no analysis is in progress goes on to a provider with that capture      *)
(* instead of ending with 'No capture available for analysis'.             *)
(***************************************************************************)
C13_CaptureForwarded ==
    [][(userCalls' = userCalls + 1 /\ stCurrent # <<>> /\ ~isAnalyzing)
         => (isAnalyzing' /\ anPc' \in {"select", "primary"})]_vars

(***************************************************************************)
(* One auto-capture session, started by the preference timer and left to   *)
(* itself: the interval, the captures and the analysis timers.             *)
(***************************************************************************)
NextSession ==
    \/ PreferenceTimerFires
    \/ IntervalFires
    \/ AnalyzeTimerFires
    \/ CaptureScreenSettles

InitSession ==
    /\ \E api \in BOOLEAN, count \in 1..MaxAutoCount : InitAc(api, count, TRUE)
    /\ InitSq
    /\ InitCap("accessible")
    /\ IdleAn
    /\ IdleRt
    /\ IdlePage

SpecSession == InitSession /\ [][NextSession]_vars

(***************************************************************************)
(* The timers fire when due (the interval for as long as it is registered) *)
(* and every captureScreen call settles.                                   *)
(***************************************************************************)
FairSpecSession ==
    /\ SpecSession
    /\ WF_vars(PreferenceTimerFires)
    /\ WF_vars(IntervalFires)
    /\ WF_vars(AnalyzeTimerFires)
    /\ WF_vars(CaptureScreenSettles)

(***************************************************************************)
(* C14: in one auto-capture session no more than autoCaptureCount capture  *)
(* attempts are started (and so no more captures recorded):                *)
(* currentAutoCaptureCount, which counts the attempts started since        *)
(* startAutoCapture, never exceeds autoCaptureCount, however long a        *)
(* capture takes relative to the interval.                                 *)
(***************************************************************************)
C14_AttemptsBounded ==
    isAutoCapturing => currentAutoCaptureCount <= autoCaptureCount

(***************************************************************************)
(* C15: a started auto-capture session eventually stops by itself, the     *)
(* interval firing and every attempt settling, whether the attempts        *)
(* succeed or fail.                                                        *)
(***************************************************************************)
C15_SessionStops == isAutoCapturing ~> ~isAutoCapturing

(***************************************************************************)
(* Countdowns started one at a time, with the three buttons.               *)
(***************************************************************************)
NextCountdown ==
    \/ StartCountdownIdle
    \/ CountdownTick
    \/ SecondPasses
    \/ PauseCountdown
    \/ ResumeCountdown
    \/ StopCountdownClick

InitCountdown ==
    /\ InitCd
    /\ IdleAq
    /\ IdleVc
    /\ IdleWl
    /\ InitSt
    /\ InitCap("accessible")
    /\ IdleAn
    /\ IdleRt
    /\ IdleAc
    /\ InitSq

SpecCountdown == InitCountdown /\ [][NextCountdown]_vars

(***************************************************************************)
(* The same, with startCountdown also called while a countdown is active.  *)
(***************************************************************************)
NextOverlap ==
    \/ StartCountdownIdle
    \/ StartCountdownAgain
    \/ CountdownTick
    \/ SecondPasses
    \/ PauseCountdown
    \/ ResumeCountdown
    \/ StopCountdownClick

SpecOverlap == InitCountdown /\ [][NextOverlap]_vars

(***************************************************************************)
(* Calls of performSequentialActions, with the three buttons.              *)
(***************************************************************************)
NextSequential ==
    \/ PerformSequentialActionsCall
    \/ ActionSettles
    \/ CountdownTick
    \/ SecondPasses
    \/ PauseCountdown
    \/ ResumeCountdown
    \/ StopCountdownClick

SpecSequential == InitCountdown /\ [][NextSequential]_vars

CountdownFields == <<cdLive, countdownInterval, currentCountdown, isCountdownActive,
                     isPaused, cbInvoked, cbRepeated>>

(***************************************************************************)
(* C16: for startCountdown(n, cb) with n >= 1 and no other countdown       *)
(* running, a tick decrements currentCountdown by exactly one when the     *)
(* countdown is not paused and leaves it unchanged while paused;           *)
(* currentCountdown never goes below 0; at 0 the countdown is inactive,    *)
(* its timer cleared and cb invoked exactly once; pause, resume and stop   *)
(* change nothing when no countdown is active.                             *)
(***************************************************************************)
C16_CountdownState ==
    /\ currentCountdown >= 0
    /\ cbRepeated = {}
    /\ Cardinality(cdLive) <= 1
    /\ isCountdownActive <=> cdLive # {}
    /\ isCountdownActive => currentCountdown > 0 /\ Handles(cdLive) = {countdownInterval}
    /\ (cdCalls > 0 /\ currentCountdown = 0) =>
         ~isCountdownActive /\ <<"call", cdCalls>> \in cbInvoked
    /\ \A c \in 1..cdCalls :
         <<"call", c>> \in cbInvoked => (c < cdCalls \/ currentCountdown = 0)

C16_CountdownStep ==
    /\ (cdEvent' = "tick" /\ cdTicked' # cdTicked) =>
         currentCountdown' = (IF isPaused THEN currentCountdown ELSE currentCountdown - 1)
    /\ (cdEvent' \in {"pause", "resume", "stop"} /\ ~isCountdownActive) =>
         UNCHANGED CountdownFields

C16_Countdown == []C16_CountdownState /\ [][C16_CountdownStep]_vars

C16_Witness ==
    /\ cdCalls = MaxCdCalls
    /\ currentCountdown = 0
    /\ cdEvent = "tick"
    /\ cbInvoked = {<<"call", c>> : c \in 1..MaxCdCalls}

(***************************************************************************)
(* C17: when startCountdown is called while a countdown is active, then    *)
(* afterwards at most one countdown timer is live, currentCountdown is     *)
(* decremented at most once per second and the callback of each call is    *)
(* invoked at most once.                                                   *)
(***************************************************************************)
C17_OneTimer ==
    /\ Cardinality(cdLive) <= 1
    /\ cdDecs <= 1
    /\ cbRepeated = {}

IsPrefix(a, b) == Len(a) <= Len(b) /\ a = SubSeq(b, 1, Len(a))

AtOrBelowZero(log) ==
    [k \in 1..Len(log) |->
       IF log[k][1] = "zero" /\ log[k][2] <= 0 THEN <<"zero", 0>> ELSE log[k]]

(***************************************************************************)
(* The log of a performSequentialActions call over a list of len actions   *)
(* that runs as the claim says.                                            *)
(***************************************************************************)
RECURSIVE ExpectedLog(_)
ExpectedLog(len) ==
    IF len = 0 THEN <<>>
    ELSE ExpectedLog(len - 1)
         \o (IF len > 1 THEN <<<<"countdown", len>>, <<"zero", 0>>>> ELSE <<>>)
         \o <<<<"start", len>>, <<"settled", len>>>>

FullLog(len) == Append(ExpectedLog(len), <<"completed">>)

NextSequentialAlone ==
    \/ PerformSequentialActionsAlone
    \/ ActionSettles
    \/ CountdownTick
    \/ SecondPasses
    \/ PauseCountdown
    \/ ResumeCountdown
    \/ StopCountdownClick

FairSpecSequentialAlone ==
    /\ InitCountdown
    /\ [][NextSequentialAlone]_vars
    /\ WF_vars(ActionSettles)
    /\ WF_vars(CountdownTick)
    /\ WF_vars(SecondPasses)

(***************************************************************************)
(* C19: for every finite list of actions that each settle,                 *)
(* performSequentialActions eventually finishes and announces completion,  *)
(* also when the user presses Stop Countdown, or Pause and then Resume,    *)
(* during a countdown between two actions.  (A call is not expected to     *)
(* finish while the countdown is left paused.)                             *)
(***************************************************************************)
C19_SequenceFinishes ==
    \A r \in 1..MaxRuns :
      (runPc[r] \in {"action", "countdown"}) ~> (runPc[r] = "done" \/ isPaused)

(***************************************************************************)
(* The announcement queue of AccessibilityManager, either class, with or   *)
(* without speech synthesis.                                               *)
(***************************************************************************)
NextAnnounce ==
    \/ Announce
    \/ UtteranceSettles
    \/ ProcessTimerFires
    \/ UserActivates
    \/ HandleEscape
    \/ OtherSpeaks
    \/ OtherEnds

InitAnnounce ==
    /\ InitAq
    /\ IdleVc
    /\ IdleWl
    /\ InitSt
    /\ InitCd
    /\ InitCap("accessible")
    /\ IdleAn
    /\ IdleRt
    /\ IdleAc
    /\ InitSq

SpecAnnounce == InitAnnounce /\ [][NextAnnounce]_vars

(***************************************************************************)
(* C20: AccessibilityManager processes announcements first-in first-out in *)
(* the order announce was called, whatever their priority, and at most one *)
(* announcement is in progress at a time: the next one is taken from the   *)
(* queue only after the previous utterance ended or errored.               *)
(***************************************************************************)
C20_FifoOneAtATime ==
    /\ aqTaken \o announcementQueue = aqCalled
    /\ Cardinality(aqInProgress) <= 1
    /\ aqInProgress # {} => isAnnouncing
    /\ (OwnUtterances(aqEngine) \cup aqEvents) \subseteq aqInProgress
    /\ Cardinality(OwnUtterances(aqEngine)) + Cardinality(aqEvents) <= 1

C20_Witness ==
    /\ Len(aqTaken) = MaxAnnouncements
    /\ Rank(aqTaken[2][2]) < Rank(aqTaken[3][2])
    /\ OwnUtterances(aqEngine) = {MaxAnnouncements}
    /\ aqTimers > 0

(***************************************************************************)
(* The announcement queue with the browser doing its part: an utterance    *)
(* handed to speechSynthesis ends or errors, the 100 ms timers fire, and   *)
(* the user eventually clicks, presses a key or touches the page.          *)
(***************************************************************************)
FairSpecAnnounce ==
    /\ InitAnnounce
    /\ [][NextAnnounce]_vars
    /\ WF_vars(UtteranceSettles)
    /\ WF_vars(ProcessTimerFires)
    /\ WF_vars(OtherEnds)
    /\ WF_vars(UserActivates)

(***************************************************************************)
(* C21: every message passed to announce is eventually displayed,          *)
(* including messages announced before the user's first click, key press   *)
(* or touch, and messages announced after such an early one.  (Runs in     *)
(* which speechSynthesis.speak throws are left aside.)                     *)
(***************************************************************************)
C21_EveryMessageDisplayed ==
    \A id \in 1..MaxAnnouncements :
      (Len(aqCalled) >= id) ~> (id \in aqDisplayed \/ aqThrew)

(***************************************************************************)
(* C22: at most one analysis is in flight per AIAnalyzer: a call of        *)
(* analyzeWithAI made while isAnalyzing is true returns without issuing a  *)
(* provider request and without changing currentAnalysis or the history,   *)
(* and isAnalyzing is false again after every analysis has ended, whether  *)
(* it succeeded, failed, or was answered by the fallback provider.         *)
(***************************************************************************)
C22_OneAnalysisState == isAnalyzing <=> anPc # "idle"

C22_RefusedCallStep ==
    (isAnalyzing /\ (userCalls' # userCalls \/ calls' # calls)) =>
        UNCHANGED <<isAnalyzing, currentAnalysis, analysisHistory, anPc, anCaller,
                    anProvider, fbProvider, fbRequest, fbAttempts>>

C23_SuccessMeansResult ==
    [][(Len(outcomes') > Len(outcomes) /\ outcomes'[Len(outcomes')] = "ok")
         => (~rtImmediate /\ anResult = "value")]_vars

(***************************************************************************)
(* C24: if the screen capture performed by the Quick Sequence succeeds,    *)
(* the sequence proceeds to the live-preview, analysis and save steps; it  *)
(* reports failure only when one of its steps actually failed.  Here: the  *)
(* step in which the capture of a running Quick Sequence settles with      *)
(* success does not set the failure status.                                *)
(***************************************************************************)
C24_FailsOnlyOnFailure ==
    [][(/\ seqKind = "quick"
        /\ seqStatus = "running"
        /\ stepsRun = <<"capture">>
        /\ slots'["seqScreen"] < slots["seqScreen"]
        /\ lastCall'.success)
         => seqStatus' # "failed"]_vars

(***************************************************************************)
(* Voice commands, one transcript after the other.                         *)
(***************************************************************************)
NextVoice == ProcessCommand

InitVoice ==
    /\ InitVc
    /\ IdleWl
    /\ InitSt
    /\ InitCd
    /\ IdleAq
    /\ InitCap("accessible")
    /\ IdleAn
    /\ IdleRt
    /\ IdleAc
    /\ InitSq

SpecVoice == InitVoice /\ [][NextVoice]_vars

(***************************************************************************)
(* The entry processCommand is to select for a transcript: the first one   *)
(* of greatest similarity among those above 0.8; 0 if there is none.       *)
(***************************************************************************)
SimilarityTo(transcript, k) == CalculateSimilarity(transcript, Commands[k][1])

BestEntry(transcript) ==
    LET above == {k \in 1..Len(Commands) :
                    Greater(SimilarityTo(transcript, k), Threshold)}
    IN  IF above = {} THEN 0
        ELSE CHOOSE k \in above :
               \A j \in above :
                 /\ ~Greater(SimilarityTo(transcript, j), SimilarityTo(transcript, k))
                 /\ j < k => Greater(SimilarityTo(transcript, k),
                                     SimilarityTo(transcript, j))

SelectionAsClaimed ==
    vcTranscript # NoTranscript =>
      LET k == BestEntry(vcTranscript)
      IN  /\ vcAction = (IF k = 0 THEN "null" ELSE Commands[k][2])
          /\ \A j \in 1..Len(Commands) :
               vcTranscript = Commands[j][1] => vcAction = Commands[j][2]

(***************************************************************************)
(* C25: processCommand executes exactly one action when some registered    *)
(* phrase has similarity above 0.8 to the transcript, the action of the    *)
(* phrase of greatest similarity (the earliest registered on a tie); a     *)
(* transcript identical to a registered phrase executes that phrase's own  *)
(* action; when no phrase exceeds 0.8 no action is executed and 'Command   *)
(* not recognized' is announced.  (Declining the confirmation of 'clear    *)
(* all' is the user's choice and is left aside.)                           *)
(***************************************************************************)
C25_CommandExecuted ==
    vcTranscript # NoTranscript =>
      /\ SelectionAsClaimed
      /\ IF BestEntry(vcTranscript) = 0
         THEN vcOutcome = "none" /\ vcAnnounced = <<"notRecognized">>
         ELSE vcOutcome \in {"executed", "declined"}

=============================================================================
